---- MODULE Spec2Model ----
(***************************************************************************)
(* BasicCache of gford1000-go/lru: the LRU store (cache.go), the actor     *)
(* goroutine started by NewBasicCache and the client calls of lru.go       *)
(* (Get, GetBatch, Put, PutBatch, Remove, Len, Close).                     *)
(***************************************************************************)
EXTENDS Integers, Sequences, FiniteSets, TLC

(* ------------------------------------------------------------------ *)
(* Bounds of the model                                                 *)
(* ------------------------------------------------------------------ *)

\* keys are 1..NumKeys
NumKeys == 3
\* non-nil values are 1..NumVals; 0 stands for a nil value
NumVals == 2
\* calls each of the two concurrent callers makes (specification Spec)
MaxCalls == 2
\* calls the single caller makes (specification SpecSeq)
MaxSeqCalls == 4
\* largest maxEntries NewBasicCache is given (0 = unbounded)
MaxEntries == 2
\* buffer of each request channel; lru.go makes them with 100 slots
ChanCap == 1
\* buffer of each request channel where the order of service is examined
\* (specification SpecOrder)
OrderChanCap == 2
\* longest list of partitions NewPartitionedCache is given
MaxPartitions == 3
\* partitions of a PartitionedCache
NumParts == 2
\* calls the first caller of a PartitionedCache makes
MaxRouterCalls == 2
\* calls the first caller of a LoadingCache makes (specification SpecLoad)
MaxLoadCalls == 3
\* longest list of keys LoadingCache.GetBatch is given
MaxBatchLen == 2
\* the timeout d of a BasicCache, in ticks of the clock (specification
\* SpecTimer)
TimeoutD == 2

Keys == 1..NumKeys
Vals == 1..NumVals
NilVal == 0
NoKey == NilVal
Callers == {1, 2}
\* the goroutines LoadingCache.GetBatch starts to store what was loaded
Writer == Cardinality(Callers) + 1
Procs == Callers \cup {Writer}
\* the partitions, each with a cache of its own; the keys given to a
\* PartitionedCache: those of the caches, one the partitioner maps to a
\* partition that is not in the table and one it fails on
Parts == 1..NumParts
UnknownKey == NumKeys + 1
BadKey == NumKeys + 2
Chans == {"put", "get", "rm", "len"}

(* ------------------------------------------------------------------ *)
(* Errors of lru.go                                                    *)
(* ------------------------------------------------------------------ *)
ErrNil == "nil"
ErrTimeout == "ErrTimeout"
ErrUnknown == "ErrUnknown"
ErrAttemptToUseInvalidCache == "ErrAttemptToUseInvalidCache"
ErrInvalidValueToAddToCache == "ErrInvalidValueToAddToCache"
ErrInvalidContext == "ErrInvalidContext"
ErrInvalidMaxEntries == "ErrInvalidMaxEntries"
ErrInvalidLoader == "ErrInvalidLoader"
ErrInvalidPartitioner == "ErrInvalidPartitioner"
ErrInvalidPartitionInfo == "ErrInvalidPartitionInfo"
ErrPartitionWithNoCache == "ErrPartitionWithNoCache"
ErrPartitionInfoHasDuplicates == "ErrPartitionInfoHasDuplicates"

VARIABLES
    maxEntries, \* capacity given to NewBasicCache / newCache
    chanCap,    \* buffer size the request channels are made with
    ctor,       \* the constructor call made: what was called, with what, result
    wb,         \* LoadingCache: the loaded pairs handed to the goroutines that
                \* store them, in the order they were handed over
    partitions, \* PartitionedCache: p.partitions, the names in the table
    delegates,  \* PartitionedCache: the cache registered for each partition
    processes,  \* PartitionedCache.GetBatch: the goroutines started for the
                \* delegates' GetBatch calls, each with its result channel
    ll,         \* cache.ll: the recency list, front first, of [key, value]
    cache,      \* cache.cache: the map, key -> key of the element it points to
    isNil,      \* cache.cache == nil (after clear)
    chan,       \* buffered request channels: chan[ch] is the queue of requests
    closed,     \* closed[ch]: the request channel has been closed
    ctxDone,    \* the governing context of NewBasicCache is cancelled
    apc,        \* actor goroutine: where it is
    cur,        \* actor goroutine: the request it is replying to, with its reply
    panicking,  \* actor goroutine: it is unwinding from a panic
    pc,         \* caller goroutines: where each is
    call,       \* caller goroutines: the call each is in (or has last made)
    ret,        \* caller goroutines: what the last call returned
    quota,      \* calls each caller makes in all
    h           \* history: what the callers and the actor have done so far

routerVars == <<partitions, delegates, processes>>

vars == <<maxEntries, chanCap, ctor, routerVars, wb, ll, cache, isNil, chan, closed, ctxDone, apc, cur,
          panicking, pc, call, ret, quota, h>>

storeVars == <<ll, cache, isNil>>

(* ------------------------------------------------------------------ *)
(* Sequence helpers                                                    *)
(* ------------------------------------------------------------------ *)
SeqRemoveAt(s, i) ==
    [j \in 1..(Len(s) - 1) |-> IF j < i THEN s[j] ELSE s[j + 1]]

\* index of the list element carrying key k, 0 when there is none
RECURSIVE IndexFrom(_, _, _)
IndexFrom(s, k, i) ==
    IF i > Len(s) THEN 0
    ELSE IF s[i].key = k THEN i
    ELSE IndexFrom(s, k, i + 1)

IndexOf(s, k) == IndexFrom(s, k, 1)

\* list.MoveToFront of the element carrying key k
MoveToFront(s, k) ==
    LET i == IndexOf(s, k)
    IN IF i = 0 THEN s ELSE <<s[i]>> \o SeqRemoveAt(s, i)

(* ------------------------------------------------------------------ *)
(* cache.go: the store. A store is [ll, cache, isNil].                 *)
(* ------------------------------------------------------------------ *)
MapRemove(m, k) == [x \in (DOMAIN m) \ {k} |-> m[x]]
MapPut(m, k, e) == [x \in (DOMAIN m) \cup {k} |-> IF x = k THEN e ELSE m[x]]
EmptyMap == [x \in {} |-> NoKey]

newCache == [ll |-> <<>>, cache |-> EmptyMap, isNil |-> FALSE]

\* removeElement without the delete from the map
removeElementKeepsMap(st, ek) ==
    LET i == IndexOf(st.ll, ek)
    IN [st EXCEPT !.ll = IF i = 0 THEN st.ll ELSE SeqRemoveAt(st.ll, i)]

\* removeElement(e): e is named by the key its entry carries
removeElement(st, ek) ==
    LET i == IndexOf(st.ll, ek)
    IN [st EXCEPT !.ll = IF i = 0 THEN st.ll ELSE SeqRemoveAt(st.ll, i),
                  !.cache = MapRemove(st.cache, ek)]

\* removeOldest taking the front (newest) element
removeNewest(st) ==
    IF st.isNil THEN st
    ELSE IF Len(st.ll) = 0 THEN st
    ELSE removeElement(st, st.ll[1].key)

removeOldest(st) ==
    IF st.isNil THEN st
    ELSE IF Len(st.ll) = 0 THEN st
    ELSE removeElement(st, st.ll[Len(st.ll)].key)

\* cachePut with the old value kept when the key is already stored
cachePutKeepsOld(st, cap, key, value) ==
    LET s0 == IF st.isNil THEN newCache ELSE st
    IN IF key \in DOMAIN s0.cache
       THEN [s0 EXCEPT !.ll = MoveToFront(s0.ll, s0.cache[key])]
       ELSE LET s1 == [s0 EXCEPT !.ll = <<[key |-> key, value |-> value]>> \o s0.ll,
                                 !.cache = MapPut(s0.cache, key, key)]
            IN IF cap /= 0 /\ Len(s1.ll) > cap THEN removeOldest(s1) ELSE s1

\* cachePut evicting only from capacity + 2 entries on
cachePutLateEvict(st, cap, key, value) ==
    LET s0 == IF st.isNil THEN newCache ELSE st
    IN IF key \in DOMAIN s0.cache
       THEN LET moved == MoveToFront(s0.ll, s0.cache[key])
            IN [s0 EXCEPT !.ll = <<[key |-> moved[1].key, value |-> value]>>
                                   \o Tail(moved)]
       ELSE LET s1 == [s0 EXCEPT !.ll = <<[key |-> key, value |-> value]>> \o s0.ll,
                                 !.cache = MapPut(s0.cache, key, key)]
            IN IF cap /= 0 /\ Len(s1.ll) > cap + 1 THEN removeOldest(s1) ELSE s1

\* cachePut making room also when the key is already stored
cachePutEvictsOnUpdate(st, cap, key, value) ==
    LET s0 == IF st.isNil THEN newCache ELSE st
    IN IF key \in DOMAIN s0.cache
       THEN LET moved == MoveToFront(s0.ll, s0.cache[key])
                s1 == [s0 EXCEPT !.ll = <<[key |-> moved[1].key, value |-> value]>>
                                        \o Tail(moved)]
            IN IF cap /= 0 /\ Len(s1.ll) >= cap THEN removeOldest(s1) ELSE s1
       ELSE LET s1 == [s0 EXCEPT !.ll = <<[key |-> key, value |-> value]>> \o s0.ll,
                                 !.cache = MapPut(s0.cache, key, key)]
            IN IF cap /= 0 /\ Len(s1.ll) > cap THEN removeOldest(s1) ELSE s1

cachePut(st, cap, key, value) ==
    LET s0 == IF st.isNil THEN newCache ELSE st
    IN IF key \in DOMAIN s0.cache
       THEN LET moved == MoveToFront(s0.ll, s0.cache[key])
            IN [s0 EXCEPT !.ll = <<[key |-> moved[1].key, value |-> value]>>
                                   \o Tail(moved)]
       ELSE LET s1 == [s0 EXCEPT !.ll = <<[key |-> key, value |-> value]>> \o s0.ll,
                                 !.cache = MapPut(s0.cache, key, key)]
            IN IF cap /= 0 /\ Len(s1.ll) > cap THEN removeOldest(s1) ELSE s1

\* cacheGet without the MoveToFront
cacheGetNoMove(st, key) ==
    IF st.isNil THEN <<st, NilVal, FALSE>>
    ELSE IF key \in DOMAIN st.cache
    THEN <<st, st.ll[IndexOf(st.ll, st.cache[key])].value, TRUE>>
    ELSE <<st, NilVal, FALSE>>

\* get returns <<store, value, ok>>
cacheGet(st, key) ==
    IF st.isNil THEN <<st, NilVal, FALSE>>
    ELSE IF key \in DOMAIN st.cache
    THEN LET moved == MoveToFront(st.ll, st.cache[key])
         IN <<[st EXCEPT !.ll = moved], moved[1].value, TRUE>>
    ELSE <<st, NilVal, FALSE>>

\* remove taking out the oldest entry when the key is not stored
cacheRemoveOrOldest(st, key) ==
    IF st.isNil THEN st
    ELSE IF key \in DOMAIN st.cache THEN removeElement(st, st.cache[key])
    ELSE removeOldest(st)

cacheRemove(st, key) ==
    IF st.isNil THEN st
    ELSE IF key \in DOMAIN st.cache THEN removeElement(st, st.cache[key])
    ELSE st

cacheLen(st) == IF st.isNil THEN 0 ELSE Len(st.ll)

clear(st) == [ll |-> <<>>, cache |-> EmptyMap, isNil |-> TRUE]

Store == [ll |-> ll, cache |-> cache, isNil |-> isNil]

SetStore(st) ==
    /\ ll' = st.ll
    /\ cache' = st.cache
    /\ isNil' = st.isNil

(* ------------------------------------------------------------------ *)
(* Requests, calls and returns                                         *)
(* ------------------------------------------------------------------ *)
KV(k, v) == [key |-> k, value |-> v]

\* a putRequest / getRequest / removeRequest / getLenRequest; its response
\* channel is the one made by call n of caller c
Request(c, n, keys, v) == [c |-> c, n |-> n, keys |-> keys, v |-> v]

NoCall == [op |-> "none", keys |-> <<>>, vals |-> <<>>, idx |-> 0, n |-> 0,
           ctx |-> "none", solo |-> FALSE, late |-> "no", res |-> <<>>, t |-> 0]
\* t: the ticks the timer of the present select, time.After(c.d), has run;
\* ctx: the context the call was entered with ("done": already cancelled,
\* "cancelled": cancelled during the call); idx: the pair a PutBatch was at
NoRet == [op |-> "none", err |-> "none", out |-> <<>>, solo |-> FALSE,
          late |-> "no", ctx |-> "none", idx |-> 0]
NoCur == [c |-> 0, n |-> 0, resp |-> <<>>]

\* the inputs the callers draw from
ConcKeys == {1, 2}
GetBatchInputs == {<<1, 2, 1>>}
PutBatchInputs == {<<KV(1, 1), KV(2, 1)>>}
\* batches with and without a nil value, the nil value not in first place
FailingBatchInputs == {<<KV(1, 1), KV(2, 2)>>, <<KV(2, 1), KV(1, NilVal)>>}

\* the response channel made by call n of caller c is open until that call
\* returns (defer close(ch))
ChOpen(c, n) == call[c].n = n /\ pc[c] \in {"send", "wait"}

Running == apc /= "crashed"

\* the calls made on a LoadingCache that wraps the BasicCache
LoadingOps == {"Loading.Get", "Loading.GetBatch"}

\* the request channel a call sends on
ChanOf(op) ==
    CASE op \in {"Get", "GetBatch"} \cup LoadingOps -> "get"
      [] op \in {"Put", "PutBatch"} -> "put"
      [] op = "Remove" -> "rm"
      [] OTHER -> "len"

CloseOrder == <<"put", "get", "rm", "len">>
ClosePc == [i \in 1..4 |-> "close_" \o CloseOrder[i]]
ClosePcs == {ClosePc[i] : i \in 1..4}
CloseIdx(p) == CHOOSE i \in 1..4 : ClosePc[i] = p

(* ------------------------------------------------------------------ *)
(* History: what has been done so far, recorded beside the program     *)
(*   lastMut[k]  the value of the last acknowledged Put of k, NilVal   *)
(*               when there is none or a Remove of k was acknowledged  *)
(*               after it                                              *)
(*   puts        the keys with an acknowledged Put, in order of their  *)
(*               first one                                             *)
(*   phase       "puts" while every call so far was a Put of a key not *)
(*               put before, or a Len; "reads" once Get calls (and     *)
(*               Len) followed those; "off" after anything else        *)
(*   removed     a Remove has been issued                              *)
(*   touch       the stored keys, most recently touched first, a touch *)
(*               being a served Put of the key or a served Get/GetBatch*)
(*               that found it                                         *)
(*   evict       the key the last served request evicted (NoKey: none) *)
(*               and the stored key touched longest ago at that time   *)
(*   order       the requests sent and not yet served, in the order    *)
(*               they were sent, each <<channel, caller, call number>> *)
(*   ahead       the channel of the request served last and the        *)
(*               channels of the requests that had been sent before it *)
(*               and were still unserved                               *)
(*   applied[c]  the pairs of caller c's present (or last) call that   *)
(*               the actor has applied to the store, in order          *)
(*   clean[k]    a Put of k has been acknowledged and no Put or Remove *)
(*               of k and no eviction of k has been served since       *)
(*   exp[c]      for the Get of one key that caller c is in or has     *)
(*               last made: lastMut of the key when the Get was issued *)
(*               if the key was clean then and has stayed clean until  *)
(*               the Get was served, else NilVal                       *)
(*   req[c]      the keys caller c's present (or last) call was given  *)
(*   got[c]      what the actor replied to the get request of caller   *)
(*               c's present (or last) call                            *)
(*   loader[c]   the invocations of the loader in caller c's present   *)
(*               (or last) call, each with the keys it was given and   *)
(*               what it gave back, and whether it panicked            *)
(*   panicked    a loader has panicked                                 *)
(*   pclosed     a PartitionedCache.Close has returned                 *)
(*   dead[c]     the partitions whose cache had ended when caller c's  *)
(*               present (or last) PartitionedCache.Len began          *)
(*   waited[c]   the ticks caller c's present (or last) call has spent *)
(*               in its selects, waiting for the actor                 *)
(* ------------------------------------------------------------------ *)
Range(s) == {s[i] : i \in 1..Len(s)}

RECURSIVE Without(_, _)
Without(s, k) ==
    IF s = <<>> THEN <<>>
    ELSE IF Head(s) = k THEN Without(Tail(s), k)
    ELSE <<Head(s)>> \o Without(Tail(s), k)

RECURSIVE Restrict(_, _)
Restrict(s, S) ==
    IF s = <<>> THEN <<>>
    ELSE IF Head(s) \in S THEN <<Head(s)>> \o Restrict(Tail(s), S)
    ELSE Restrict(Tail(s), S)

Touch(t, k) == <<k>> \o Without(t, k)

NoEvict == [key |-> NoKey, oldest |-> NoKey]

NoHistory ==
    [lastMut |-> [k \in Keys |-> NilVal], puts |-> <<>>, phase |-> "puts",
     removed |-> FALSE, touch |-> <<>>, evict |-> NoEvict,
     clean |-> [k \in Keys |-> FALSE], exp |-> [c \in Procs |-> NilVal],
     order |-> <<>>, ahead |-> [ch |-> "", chans |-> {}],
     applied |-> [c \in Procs |-> <<>>],
     loader |-> [c \in Procs |-> <<>>], req |-> [c \in Procs |-> <<>>],
     got |-> [c \in Procs |-> <<>>], panicked |-> FALSE, pclosed |-> FALSE,
     dead |-> [c \in Procs |-> {}], waited |-> [c \in Procs |-> 0]]

KeysOf(st) == {st.ll[i].key : i \in 1..Len(st.ll)}

\* a call is issued by caller c
HBegin(c, op, keys, vals, ctx) ==
    [h EXCEPT
       !.waited[c] = 0,
       !.applied[c] = <<>>,
       !.loader[c] = <<>>,
       !.req[c] = keys,
       !.got[c] = <<>>,
       !.exp[c] = IF op \in {"Get", "Loading.Get"} /\ ctx /= "done" /\ h.clean[keys[1]]
                  THEN h.lastMut[keys[1]]
                  ELSE NilVal,
       !.phase =
           IF h.phase = "off" \/ ctx = "done" THEN "off"
           ELSE IF op = "Len" THEN h.phase
           ELSE IF op \in {"Get", "GetBatch"} THEN "reads"
           ELSE IF /\ op = "Put"
                   /\ h.phase = "puts"
                   /\ vals[1].value /= NilVal
                   /\ vals[1].key \notin Range(h.puts)
           THEN "puts"
           ELSE "off",
       !.removed = h.removed \/ op = "Remove"]

\* the caller of call cl receives the actor's acknowledgement
HAck(cl) ==
    IF cl.op \in {"Put", "PutBatch"}
    THEN LET kv == cl.vals[cl.idx]
         IN [h EXCEPT !.lastMut[kv.key] = kv.value,
                      !.clean[kv.key] = TRUE,
                      !.puts = IF kv.key \in Range(h.puts) THEN h.puts
                               ELSE Append(h.puts, kv.key)]
    ELSE IF cl.op = "Remove"
    THEN [h EXCEPT !.lastMut[cl.keys[1]] = NilVal]
    ELSE h

\* the request of caller c's call is put into channel ch
HSend(ch, c) == [h EXCEPT !.order = Append(h.order, <<ch, c, call[c].n>>)]

\* the requests of sequence s before its entry id
RECURSIVE Before(_, _)
Before(s, id) ==
    IF s = <<>> \/ Head(s) = id THEN <<>>
    ELSE <<Head(s)>> \o Before(Tail(s), id)

\* the keys a get reply found, moved to the front one after another
RECURSIVE TouchFound(_, _)
TouchFound(t, resp) ==
    IF resp = <<>> THEN t
    ELSE TouchFound(IF Head(resp).ok THEN Touch(t, Head(resp).key) ELSE t,
                    Tail(resp))

\* the actor serves request r of channel ch: st is the store before, st2 the
\* store after and resp the reply
HServe(ch, r, st, st2, resp) ==
    LET t == CASE ch = "put" -> Touch(h.touch, r.keys[1])
               [] ch = "get" -> TouchFound(h.touch, resp)
               [] ch = "rm" -> Without(h.touch, r.keys[1])
               [] OTHER -> h.touch
        gone == IF ch = "put" THEN (KeysOf(st) \cup {r.keys[1]}) \ KeysOf(st2)
                ELSE {}
        hit == IF ch \in {"put", "rm"} THEN gone \cup {r.keys[1]} ELSE {}
    IN [h EXCEPT
          !.applied[r.c] = IF ch = "put" /\ call[r.c].n = r.n
                           THEN Append(@, KV(r.keys[1], r.v)) ELSE @,
          !.got[r.c] = IF ch = "get" /\ call[r.c].n = r.n THEN resp ELSE @,
          !.order = Without(h.order, <<ch, r.c, r.n>>),
          !.ahead = [ch |-> ch,
                     chans |-> {e[1] : e \in Range(Before(h.order, <<ch, r.c, r.n>>))}],
          !.clean = [k \in Keys |-> h.clean[k] /\ k \notin hit],
          !.exp = [c \in Procs |->
                      IF /\ pc[c] \in {"send", "wait"}
                         /\ call[c].op \in {"Get", "Loading.Get"}
                         /\ call[c].keys[1] \in hit
                      THEN NilVal ELSE h.exp[c]],
          !.touch = Restrict(t, KeysOf(st2)),
          !.evict = IF gone = {} THEN NoEvict
                    ELSE [key |-> CHOOSE k \in gone : TRUE,
                          oldest |-> IF h.touch = <<>> THEN r.keys[1]
                                     ELSE h.touch[Len(h.touch)]]]

(* ------------------------------------------------------------------ *)
(* The constructors. A result is [err, inst, actor]: the error, whether *)
(* an instance is returned, whether an actor goroutine was started.    *)
(* ------------------------------------------------------------------ *)
Failed(err) == [err |-> err, inst |-> FALSE, actor |-> FALSE]

NewBasicCache(ctx, me) ==
    IF ctx = "done" THEN Failed(ErrInvalidContext)
    ELSE IF me < 0 THEN Failed(ErrInvalidMaxEntries)
    ELSE [err |-> ErrNil, inst |-> TRUE, actor |-> TRUE]

NewLoadingCache(ctx, loader, me) ==
    IF ctx = "done" THEN Failed(ErrInvalidContext)
    ELSE IF loader = "nil" THEN Failed(ErrInvalidLoader)
    ELSE NewBasicCache(ctx, me)

\* the loop over caches without the test for a name seen before
RECURSIVE PartitionLoopAnyName(_, _)
PartitionLoopAnyName(caches, m) ==
    IF caches = <<>> THEN [err |-> ErrNil, inst |-> TRUE, actor |-> FALSE]
    ELSE IF Head(caches).cache = "nil" THEN Failed(ErrPartitionWithNoCache)
    ELSE PartitionLoopAnyName(Tail(caches), m \cup {Head(caches).name})

\* the loop over caches: m is the set of names seen so far
RECURSIVE PartitionLoop(_, _)
PartitionLoop(caches, m) ==
    IF caches = <<>> THEN [err |-> ErrNil, inst |-> TRUE, actor |-> FALSE]
    ELSE IF Head(caches).cache = "nil" THEN Failed(ErrPartitionWithNoCache)
    ELSE IF Head(caches).name \in m THEN Failed(ErrPartitionInfoHasDuplicates)
    ELSE PartitionLoop(Tail(caches), m \cup {Head(caches).name})

NewPartitionedCache(partitioner, caches) ==
    IF partitioner = "nil" THEN Failed(ErrInvalidPartitioner)
    ELSE IF Len(caches) = 0 THEN Failed(ErrInvalidPartitionInfo)
    ELSE PartitionLoop(caches, {})

NoCtor == [fn |-> "none", args |-> <<>>, res |-> Failed("none")]

\* the arguments the constructors are called with
CtxArgs == {"live", "done"}
MaxEntriesArgs == (0 - 1)..MaxEntries
FuncArgs == {"nil", "func"}
PartitionInfos == [name : {"a", "b"}, cache : {"nil", "cache"}]
PartitionArgs == UNION {[1..n -> PartitionInfos] : n \in 0..MaxPartitions}

(* ------------------------------------------------------------------ *)
(* Init: the state NewBasicCache leaves, with the actor started        *)
(* ------------------------------------------------------------------ *)
\* a cache of a partition as its constructor leaves it
NewDelegate == [st |-> newCache, closed |-> FALSE]

\* there is no PartitionedCache
NoRouter ==
    /\ partitions = {}
    /\ delegates = [d \in Parts |-> NewDelegate]
    /\ processes = <<>>

\* the state a constructor of a cache with an actor leaves, the
\* PartitionedCache apart
InitActor ==
    /\ ctor.res.actor
    /\ ll = newCache.ll
    /\ cache = newCache.cache
    /\ isNil = newCache.isNil
    /\ chan = [ch \in Chans |-> <<>>]
    /\ closed = [ch \in Chans |-> FALSE]
    /\ ctxDone = FALSE
    /\ apc = "select"
    /\ cur = NoCur
    /\ panicking = FALSE
    /\ pc = [c \in Procs |-> "idle"]
    /\ call = [c \in Procs |-> NoCall]
    /\ ret = [c \in Procs |-> NoRet]
    /\ wb = <<>>
    /\ h = NoHistory

InitState ==
    /\ InitActor
    /\ NoRouter

\* the state NewBasicCache(ctx, maxEntries) leaves
InitCache ==
    /\ maxEntries \in 0..MaxEntries
    /\ ctor = [fn |-> "NewBasicCache", args |-> <<"live", maxEntries>>,
               res |-> NewBasicCache("live", maxEntries)]
    /\ InitState

\* the state NewLoadingCache(ctx, loader, maxEntries) leaves
InitLoading ==
    /\ maxEntries \in 0..MaxEntries
    /\ ctor = [fn |-> "NewLoadingCache", args |-> <<"live", "func", maxEntries>>,
               res |-> NewLoadingCache("live", "func", maxEntries)]
    /\ InitState

\* a program that holds a LoadingCache and a PartitionedCache over caches
\* of its own: the first caller calls the LoadingCache and the BasicCache
\* it wraps, the second caller makes one call of the PartitionedCache
InitComposite ==
    /\ maxEntries = MaxEntries
    /\ ctor = [fn |-> "NewLoadingCache", args |-> <<"live", "func", maxEntries>>,
               res |-> NewLoadingCache("live", "func", maxEntries)]
    /\ InitActor
    /\ partitions = Parts
    /\ delegates = [d \in Parts |-> NewDelegate]
    /\ processes = <<>>
    /\ chanCap = ChanCap
    /\ quota = [c \in Procs |-> IF c = 1 THEN MaxCalls
                                 ELSE IF c \in Callers THEN 1
                                 ELSE MaxCalls * MaxBatchLen]

\* no constructor has been called yet: there is no cache and no actor
InitNew ==
    /\ maxEntries = 0
    /\ chanCap = ChanCap
    /\ ctor = NoCtor
    /\ ll = newCache.ll
    /\ cache = newCache.cache
    /\ isNil = newCache.isNil
    /\ chan = [ch \in Chans |-> <<>>]
    /\ closed = [ch \in Chans |-> FALSE]
    /\ ctxDone = FALSE
    /\ apc = "none"
    /\ cur = NoCur
    /\ panicking = FALSE
    /\ pc = [c \in Procs |-> "idle"]
    /\ call = [c \in Procs |-> NoCall]
    /\ ret = [c \in Procs |-> NoRet]
    /\ wb = <<>>
    /\ quota = [c \in Procs |-> 0]
    /\ h = NoHistory
    /\ NoRouter

\* a constructor is called; NewBasicCache starts the actor when it succeeds
Construct(fn, args, res, me) ==
    /\ ctor = NoCtor
    /\ ctor' = [fn |-> fn, args |-> args, res |-> res]
    /\ apc' = IF res.actor THEN "select" ELSE apc
    /\ maxEntries' = IF res.actor THEN me ELSE maxEntries
    /\ UNCHANGED <<chanCap, routerVars, wb, storeVars, chan, closed, ctxDone, cur, panicking,
                   pc, call, ret, quota, h>>

ConstructBasic ==
    \E ctx \in CtxArgs, me \in MaxEntriesArgs :
        Construct("NewBasicCache", <<ctx, me>>, NewBasicCache(ctx, me), me)

ConstructLoading ==
    \E ctx \in CtxArgs, loader \in FuncArgs, me \in MaxEntriesArgs :
        Construct("NewLoadingCache", <<ctx, loader, me>>,
                  NewLoadingCache(ctx, loader, me), me)

ConstructPartitioned ==
    \E partitioner \in FuncArgs, caches \in PartitionArgs :
        Construct("NewPartitionedCache", <<partitioner, caches>>,
                  NewPartitionedCache(partitioner, caches), 0)

Init ==
    /\ InitCache
    /\ chanCap = ChanCap
    /\ quota = [c \in Procs |-> IF c \in Callers THEN MaxCalls ELSE 0]

InitSeq ==
    /\ InitCache
    /\ chanCap = ChanCap
    /\ quota = [c \in Procs |-> IF c = 1 THEN MaxSeqCalls ELSE 0]

\* the second caller makes one call only
InitClose ==
    /\ InitCache
    /\ chanCap = ChanCap
    /\ quota = [c \in Procs |-> IF c = 1 THEN MaxCalls ELSE IF c \in Callers THEN 1 ELSE 0]

\* channels of OrderChanCap slots
InitOrder ==
    /\ InitCache
    /\ chanCap = OrderChanCap
    /\ quota = [c \in Procs |-> IF c \in Callers THEN MaxCalls ELSE 0]

\* a LoadingCache: the first caller makes MaxLoadCalls calls, and the
\* goroutines that store what was loaded as many as needed
InitLoad ==
    /\ InitLoading
    /\ chanCap = ChanCap
    /\ quota = [c \in Procs |-> IF c = 1 THEN MaxLoadCalls
                                 ELSE IF c \in Callers THEN 0
                                 ELSE MaxLoadCalls * MaxBatchLen]

\* the state NewPartitionedCache leaves when given one cache for each
\* partition: there is no actor of its own, every partition is in the table;
\* the second caller makes one call
InitPartitioned ==
    /\ maxEntries \in 0..MaxEntries
    /\ chanCap = ChanCap
    /\ ctor = [fn |-> "NewPartitionedCache",
               args |-> <<"func", [i \in Parts |-> [name |-> i, cache |-> "cache"]]>>,
               res |-> [err |-> ErrNil, inst |-> TRUE, actor |-> FALSE]]
    /\ ll = newCache.ll
    /\ cache = newCache.cache
    /\ isNil = newCache.isNil
    /\ chan = [ch \in Chans |-> <<>>]
    /\ closed = [ch \in Chans |-> FALSE]
    /\ ctxDone = FALSE
    /\ apc = "none"
    /\ cur = NoCur
    /\ panicking = FALSE
    /\ pc = [c \in Procs |-> "idle"]
    /\ call = [c \in Procs |-> NoCall]
    /\ ret = [c \in Procs |-> NoRet]
    /\ wb = <<>>
    /\ h = NoHistory
    /\ partitions = Parts
    /\ delegates = [d \in Parts |-> NewDelegate]
    /\ processes = <<>>
    /\ quota = [c \in Procs |-> IF c = 1 THEN MaxRouterCalls
                                 ELSE IF c \in Callers THEN 1
                                 ELSE 0]

\* a LoadingCache whose write-back may fail: the first caller makes MaxCalls
\* calls, the second one
InitWriteBack ==
    /\ InitLoading
    /\ chanCap = ChanCap
    /\ quota = [c \in Procs |-> IF c = 1 THEN MaxCalls
                                 ELSE IF c \in Callers THEN 1
                                 ELSE MaxCalls * MaxBatchLen]

(* ------------------------------------------------------------------ *)
(* The client calls of lru.go                                          *)
(* ------------------------------------------------------------------ *)

\* a returned call keeps only its number
Ended(cl) == [NoCall EXCEPT !.n = cl.n]

\* the return of a call: its deferred close(ch) closes the response channel
Return(c, cl, err, out) ==
    /\ pc' = [pc EXCEPT ![c] = "idle"]
    /\ call' = [call EXCEPT ![c] = Ended(cl)]
    /\ ret' = [ret EXCEPT ![c] = [op |-> cl.op, err |-> err, out |-> out,
                                   solo |-> cl.solo, late |-> cl.late,
                                   ctx |-> cl.ctx, idx |-> cl.idx]]

\* what a call that begins now comes after: a Close call that is the last
\* call some caller has returned from ("close"), else the end of the actor
\* goroutine ("exit"), else neither
Late ==
    IF \E d \in Callers : pc[d] = "idle" /\ ret[d].op = "Close" THEN "close"
    ELSE IF apc = "done" THEN "exit"
    ELSE "no"

\* no call of another caller is in progress
Alone(c) == \A d \in Procs \ {c} : pc[d] = "idle"

\* the calls and returns of the other callers are no longer the only ones
\* since they began
NotSolo(f, c) == [d \in Procs |-> IF d = c THEN f[d] ELSE [f[d] EXCEPT !.solo = FALSE]]

\* Begin without the check of the context on entry
BeginNoPrecheck(c, op, keys, vals, ctx) ==
    /\ Running
    /\ pc[c] = "idle"
    /\ call[c].n < quota[c]
    /\ LET cl == [op |-> op, keys |-> keys, vals |-> vals, idx |-> 1,
                  n |-> call[c].n + 1, ctx |-> ctx, solo |-> Alone(c),
                  late |-> Late, res |-> <<>>, t |-> 0]
           early == op \in {"Put", "PutBatch"} /\ Len(vals) = 0
           err == IF ctx = "done" THEN ErrInvalidContext ELSE ErrNil
       IN /\ pc' = [pc EXCEPT ![c] = IF early THEN "idle"
                                     ELSE IF op = "Close" THEN ClosePc[1]
                                     ELSE "send"]
          /\ call' = NotSolo([call EXCEPT ![c] = IF early THEN Ended(cl) ELSE cl], c)
          /\ ret' = NotSolo([ret EXCEPT ![c] =
                                IF early
                                THEN [op |-> op, err |-> err, out |-> <<>>,
                                      solo |-> cl.solo, late |-> cl.late,
                                      ctx |-> ctx, idx |-> 0]
                                ELSE NoRet], c)
    /\ h' = HBegin(c, op, keys, vals, ctx)
    /\ UNCHANGED <<maxEntries, chanCap, ctor, routerVars, wb, storeVars, chan, closed, ctxDone, apc, cur,
                   panicking, quota>>

\* entry of a call up to its first channel operation
Begin(c, op, keys, vals, ctx) ==
    /\ Running
    /\ pc[c] = "idle"
    /\ call[c].n < quota[c]
    /\ LET cl == [op |-> op, keys |-> keys, vals |-> vals, idx |-> 1,
                  n |-> call[c].n + 1, ctx |-> ctx, solo |-> Alone(c),
                  late |-> Late, res |-> <<>>, t |-> 0]
           early == ctx = "done" \/ (op \in {"Put", "PutBatch"} /\ Len(vals) = 0)
           err == IF ctx = "done" THEN ErrInvalidContext ELSE ErrNil
       IN /\ pc' = [pc EXCEPT ![c] = IF early THEN "idle"
                                     ELSE IF op = "Close" THEN ClosePc[1]
                                     ELSE "send"]
          /\ call' = NotSolo([call EXCEPT ![c] = IF early THEN Ended(cl) ELSE cl], c)
          /\ ret' = NotSolo([ret EXCEPT ![c] =
                                IF early
                                THEN [op |-> op, err |-> err, out |-> <<>>,
                                      solo |-> cl.solo, late |-> cl.late,
                                      ctx |-> ctx, idx |-> 0]
                                ELSE NoRet], c)
    /\ h' = HBegin(c, op, keys, vals, ctx)
    /\ UNCHANGED <<maxEntries, chanCap, ctor, routerVars, wb, storeVars, chan, closed, ctxDone, apc, cur,
                   panicking, quota>>

\* the calls, with the sets their arguments are drawn from
Get(c, K, X) ==
    \E k \in K, ctx \in X : Begin(c, "Get", <<k>>, <<>>, ctx)

GetBatch(c, B, X) ==
    \E ks \in B, ctx \in X : Begin(c, "GetBatch", ks, <<>>, ctx)

Put(c, K, V, X) ==
    \E k \in K, v \in V, ctx \in X : Begin(c, "Put", <<>>, <<KV(k, v)>>, ctx)

PutBatch(c, B, X) ==
    \E kvs \in B, ctx \in X : Begin(c, "PutBatch", <<>>, kvs, ctx)

Remove(c, K) ==
    \E k \in K : Begin(c, "Remove", <<k>>, <<>>, "none")

LenCall(c) == Begin(c, "Len", <<>>, <<>>, "none")

Close(c) == Begin(c, "Close", <<>>, <<>>, "none")

\* the request the call sends next
NextRequest(c) ==
    LET cl == call[c]
    IN IF cl.op \in {"Put", "PutBatch"}
       THEN Request(c, cl.n, <<cl.vals[cl.idx].key>>, cl.vals[cl.idx].value)
       ELSE Request(c, cl.n, cl.keys, NilVal)

\* Send without the check for a nil value
SendNoNilCheck(c) ==
    /\ Running
    /\ pc[c] = "send"
    /\ LET cl == call[c]
           ch == ChanOf(cl.op)
       IN IF FALSE
          THEN /\ Return(c, cl, ErrInvalidValueToAddToCache, <<>>)
               /\ UNCHANGED <<chan, h>>
          ELSE IF closed[ch]
          THEN /\ Return(c, cl, ErrAttemptToUseInvalidCache, <<>>)
               /\ UNCHANGED <<chan, h>>
          ELSE /\ Len(chan[ch]) < chanCap
               /\ chan' = [chan EXCEPT ![ch] = Append(@, NextRequest(c))]
               /\ h' = HSend(ch, c)
               /\ pc' = [pc EXCEPT ![c] = "wait"]
               /\ UNCHANGED <<call, ret>>
    /\ UNCHANGED <<maxEntries, chanCap, ctor, routerVars, wb, storeVars, closed, ctxDone, apc, cur,
                   panicking, quota>>

\* c.put <- / c.get <- / c.rm <- / c.len <- : a send on a closed channel
\* panics and the deferred recover turns it into ErrAttemptToUseInvalidCache;
\* a send on a full channel blocks
Send(c) ==
    /\ Running
    /\ pc[c] = "send"
    /\ LET cl == call[c]
           ch == ChanOf(cl.op)
       IN IF cl.op \in {"Put", "PutBatch"} /\ cl.vals[cl.idx].value = NilVal
          THEN /\ Return(c, cl, ErrInvalidValueToAddToCache, <<>>)
               /\ UNCHANGED <<chan, h>>
          ELSE IF closed[ch]
          THEN /\ Return(c, cl, ErrAttemptToUseInvalidCache, <<>>)
               /\ UNCHANGED <<chan, h>>
          ELSE /\ Len(chan[ch]) < chanCap
               /\ chan' = [chan EXCEPT ![ch] = Append(@, NextRequest(c))]
               /\ h' = HSend(ch, c)
               /\ pc' = [pc EXCEPT ![c] = "wait"]
               /\ UNCHANGED <<call, ret>>
    /\ UNCHANGED <<maxEntries, chanCap, ctor, routerVars, wb, storeVars, closed, ctxDone, apc, cur,
                   panicking, quota>>

\* the results of BasicCache.GetBatch as CacheResults, Err included
WithErr(resp) ==
    [i \in 1..Len(resp) |->
        [key |-> resp[i].key, value |-> resp[i].value, ok |-> resp[i].ok,
         err |-> ErrNil]]

\* what the call returns for the actor's response
Unwrap(op, resp) ==
    CASE op = "Get" ->
            IF Len(resp) = 0 THEN [err |-> ErrUnknown, out |-> <<>>]
            ELSE [err |-> ErrNil, out |-> <<resp[1]>>]
      [] op = "GetBatch" -> [err |-> ErrNil, out |-> resp]
      [] op = "Len" -> [err |-> ErrNil, out |-> resp]
      [] OTHER -> [err |-> ErrNil, out |-> <<>>]

\* Recv returning nil at the first acknowledged pair of a batch
RecvBatchEarly(c) ==
    /\ Running
    /\ pc[c] = "wait"
    /\ apc = "reply"
    /\ cur.c = c
    /\ cur.n = call[c].n
    /\ apc' = "select"
    /\ cur' = NoCur
    /\ LET cl == call[c]
       IN IF FALSE
          THEN /\ call' = [call EXCEPT ![c].idx = @ + 1]
               /\ pc' = [pc EXCEPT ![c] = "send"]
               /\ UNCHANGED ret
          ELSE IF cl.op \in LoadingOps
          THEN /\ call' = [call EXCEPT ![c].res = WithErr(cur.resp)]
               /\ pc' = [pc EXCEPT ![c] = "load"]
               /\ UNCHANGED ret
          ELSE Return(c, cl, Unwrap(cl.op, cur.resp).err, Unwrap(cl.op, cur.resp).out)
    /\ h' = HAck(call[c])
    /\ UNCHANGED <<maxEntries, chanCap, ctor, routerVars, wb, storeVars, chan, closed, ctxDone, panicking, quota>>

\* case <-ch of the call's select: the actor's reply is received
Recv(c) ==
    /\ Running
    /\ pc[c] = "wait"
    /\ apc = "reply"
    /\ cur.c = c
    /\ cur.n = call[c].n
    /\ apc' = "select"
    /\ cur' = NoCur
    /\ LET cl == call[c]
       IN IF cl.op \in {"Put", "PutBatch"} /\ cl.idx < Len(cl.vals)
          THEN /\ call' = [call EXCEPT ![c].idx = @ + 1, ![c].t = 0]
               /\ pc' = [pc EXCEPT ![c] = "send"]
               /\ UNCHANGED ret
          ELSE IF cl.op \in LoadingOps
          THEN /\ call' = [call EXCEPT ![c].res = WithErr(cur.resp)]
               /\ pc' = [pc EXCEPT ![c] = "load"]
               /\ UNCHANGED ret
          ELSE Return(c, cl, Unwrap(cl.op, cur.resp).err, Unwrap(cl.op, cur.resp).out)
    /\ h' = HAck(call[c])
    /\ UNCHANGED <<maxEntries, chanCap, ctor, routerVars, wb, storeVars, chan, closed, ctxDone, panicking, quota>>

\* a timeout after which a LoadingCache goes on as if no key had been found
TimeoutThenLoad(c) ==
    /\ Running
    /\ pc[c] = "wait"
    /\ IF call[c].op \in LoadingOps
       THEN /\ call' = [call EXCEPT ![c].res =
                            [i \in 1..Len(call[c].keys) |->
                                [key |-> call[c].keys[i], value |-> NilVal,
                                 ok |-> FALSE, err |-> ErrNil]]]
            /\ pc' = [pc EXCEPT ![c] = "load"]
            /\ UNCHANGED ret
       ELSE Return(c, call[c], ErrTimeout, <<>>)
    /\ UNCHANGED <<maxEntries, chanCap, ctor, routerVars, wb, storeVars, chan, closed, ctxDone, apc, cur,
                   panicking, quota, h>>

\* a select that gives up with ErrAttemptToUseInvalidCache once the request
\* channel is closed
TimeoutInvalidWhenClosed(c) ==
    /\ Running
    /\ pc[c] = "wait"
    /\ Return(c, call[c],
              IF closed[ChanOf(call[c].op)] THEN ErrAttemptToUseInvalidCache
              ELSE ErrTimeout, <<>>)
    /\ UNCHANGED <<maxEntries, chanCap, ctor, routerVars, wb, storeVars, chan, closed, ctxDone, apc, cur,
                   panicking, quota, h>>

\* case <-time.After(c.d) of the call's select
Timeout(c) ==
    /\ Running
    /\ pc[c] = "wait"
    /\ Return(c, call[c], ErrTimeout, <<>>)
    /\ UNCHANGED <<maxEntries, chanCap, ctor, routerVars, wb, storeVars, chan, closed, ctxDone, apc, cur,
                   panicking, quota, h>>

\* a tick of the clock while the call waits in its select
Tick(c) ==
    /\ Running
    /\ pc[c] = "wait"
    /\ call[c].t < TimeoutD
    /\ call' = [call EXCEPT ![c].t = @ + 1]
    /\ h' = [h EXCEPT !.waited[c] = @ + 1]
    /\ UNCHANGED <<maxEntries, chanCap, ctor, routerVars, wb, storeVars, chan, closed, ctxDone, apc, cur,
                   panicking, pc, ret, quota>>

\* case <-time.After(c.d), d after the select was entered
TimerFires(c) ==
    /\ call[c].t = TimeoutD
    /\ Timeout(c)

\* the caller's context is cancelled while the call is in progress
CancelCall(c) ==
    /\ Running
    /\ pc[c] \in {"send", "wait"}
    /\ call[c].ctx = "live"
    /\ call' = [call EXCEPT ![c].ctx = "cancelled"]
    /\ UNCHANGED <<maxEntries, chanCap, ctor, routerVars, wb, storeVars, chan, closed, ctxDone, apc, cur,
                   panicking, pc, ret, quota, h>>

\* case <-ctx.Done() of the call's select
CtxAbort(c) ==
    /\ Running
    /\ pc[c] = "wait"
    /\ call[c].ctx \in {"done", "cancelled"}
    /\ Return(c, call[c], ErrInvalidContext, <<>>)
    /\ UNCHANGED <<maxEntries, chanCap, ctor, routerVars, wb, storeVars, chan, closed, ctxDone, apc, cur,
                   panicking, quota, h>>

\* one close(...) of BasicCache.Close, run by a caller: closing a closed
\* channel panics, the deferred recover swallows it and Close returns
CloseStep(c) ==
    /\ Running
    /\ pc[c] \in ClosePcs
    /\ LET i == CloseIdx(pc[c])
           ch == CloseOrder[i]
       IN IF closed[ch]
          THEN /\ Return(c, call[c], ErrNil, <<>>)
               /\ UNCHANGED closed
          ELSE /\ closed' = [closed EXCEPT ![ch] = TRUE]
               /\ IF i = 4
                  THEN Return(c, call[c], ErrNil, <<>>)
                  ELSE /\ pc' = [pc EXCEPT ![c] = ClosePc[i + 1]]
                       /\ UNCHANGED <<call, ret>>
    /\ UNCHANGED <<maxEntries, chanCap, ctor, routerVars, wb, storeVars, chan, ctxDone, apc, cur, panicking,
                   quota, h>>

\* the governing context given to NewBasicCache is cancelled
CancelGoverning ==
    /\ Running
    /\ ~ctxDone
    /\ ctxDone' = TRUE
    /\ UNCHANGED <<maxEntries, chanCap, ctor, routerVars, wb, storeVars, chan, closed, apc, cur, panicking,
                   pc, call, ret, quota, h>>

(* ------------------------------------------------------------------ *)
(* LoadingCache: GetBatch after the wrapped BasicCache has answered    *)
(* ------------------------------------------------------------------ *)
\* errors a Loader gives: for the whole call, for one key, and the error
\* the wrapper of NewLoadingCache makes of a panic
ErrLoader == "ErrLoader"
ErrLoaderKey == "ErrLoaderKey"
ErrUnexpected == "unexpected error"
\* the loader does not return: it panics
Panic == "panic"

\* the value the loader has for a key
LoadedVal == NumVals

LoaderResult(k, v, e) == [key |-> k, value |-> v, err |-> e]

\* what a loader may give for one key: a value, nil, or an error
LoaderKinds == {"value", "nil", "err"}
LoaderEntry(k, kind) ==
    CASE kind = "value" -> LoaderResult(k, LoadedVal, ErrNil)
      [] kind = "nil" -> LoaderResult(k, NilVal, ErrNil)
      [] OTHER -> LoaderResult(k, NilVal, ErrLoaderKey)

\* what the loader given to NewLoadingCache may do with the keys lk: give an
\* error, panic, give one entry per key, or give a list one entry short
LoaderOutcomes(lk) ==
    {[err |-> e, resp |-> <<>>] : e \in {ErrLoader, Panic}}
    \cup {[err |-> ErrNil, resp |-> [i \in 1..Len(lk) |-> LoaderEntry(lk[i], f[lk[i]])]] :
            f \in [Range(lk) -> LoaderKinds]}
    \cup {[err |-> ErrNil,
           resp |-> [i \in 1..(Len(lk) - 1) |-> LoaderEntry(lk[i], "value")]]}

\* the loader used as it was given, a panic passing through
unwrapped(o) == o

\* wrapped: the loader as NewLoadingCache stores it, its panic recovered and
\* turned into an error
wrapped(o) ==
    IF o.err = Panic THEN [err |-> ErrUnexpected, resp |-> <<>>] ELSE o

\* every key of the response, found or not
LoaderKeysAll(res) == [i \in 1..Len(res) |-> res[i].key]

\* loaderKeys: the keys of the results with an error or not found, in order
RECURSIVE LoaderKeys(_)
LoaderKeys(res) ==
    IF res = <<>> THEN <<>>
    ELSE (IF Head(res).err /= ErrNil \/ ~Head(res).ok THEN <<Head(res).key>> ELSE <<>>)
         \o LoaderKeys(Tail(res))

\* the merge of one loader result that leaves the value as it was
MergeEntryKeepsValue(cr, lr) ==
    IF lr.err /= ErrNil
    THEN [cr EXCEPT !.err = lr.err, !.ok = FALSE]
    ELSE [cr EXCEPT !.ok = cr.ok \/ lr.value /= NilVal]

\* the body of "if lr.Key == cr.Key" for the result cr and the loader result lr
MergeEntry(cr, lr) ==
    IF lr.err /= ErrNil
    THEN [cr EXCEPT !.err = lr.err, !.ok = FALSE]
    ELSE [cr EXCEPT !.value = lr.value, !.ok = cr.ok \/ lr.value /= NilVal]

\* the index of the first result with key k, 0 when there is none: where
\* the inner loop stops at its break
FirstWithKey(res, k) ==
    IF \E i \in 1..Len(res) : res[i].key = k
    THEN CHOOSE i \in 1..Len(res) :
            res[i].key = k /\ \A j \in 1..(i - 1) : res[j].key /= k
    ELSE 0

\* the two loops over loadResp and res
RECURSIVE Merge(_, _)
Merge(res, loadResp) ==
    IF loadResp = <<>> THEN res
    ELSE LET lr == Head(loadResp)
             i == FirstWithKey(res, lr.key)
         IN Merge(IF i = 0 THEN res ELSE [res EXCEPT ![i] = MergeEntry(res[i], lr)],
                  Tail(loadResp))

\* toCache: the loader results with a value that matched a result, in order
RECURSIVE ToCache(_, _)
ToCache(res, loadResp) ==
    IF loadResp = <<>> THEN <<>>
    ELSE LET lr == Head(loadResp)
         IN (IF /\ FirstWithKey(res, lr.key) /= 0
                /\ lr.err = ErrNil
                /\ lr.value /= NilVal
             THEN <<KV(lr.key, lr.value)>> ELSE <<>>)
            \o ToCache(res, Tail(loadResp))

\* a count test that lets any list pass
CountAny(loadResp, lk) == TRUE

\* len(loadResp) != len(loaderKeys) does not hold
CountOK(loadResp, lk) == Len(loadResp) = Len(lk)

\* what LoadingCache.Get / GetBatch returns for the results res
Finish(c, cl, res) ==
    IF cl.op = "Loading.Get"
    THEN IF Len(res) = 0 THEN Return(c, cl, ErrUnknown, <<>>)
         ELSE Return(c, cl, res[1].err, <<res[1]>>)
    ELSE Return(c, cl, ErrNil, res)

\* the deferred recover of GetBatch: err is set and res is as it was
Recovered(c, cl, res) ==
    IF cl.op = "Loading.Get" THEN Return(c, cl, ErrUnexpected, <<>>)
    ELSE Return(c, cl, ErrUnexpected, res)

\* LoadingCache.GetBatch from the answer of l.cache.GetBatch to its return
Load(c) ==
    /\ Running
    /\ pc[c] = "load"
    /\ LET cl == call[c]
           res == cl.res
           lk == LoaderKeys(res)
       IN IF Len(res) /= Len(cl.keys)
          THEN Return(c, cl, ErrUnknown, <<>>) /\ UNCHANGED <<wb, h>>
          ELSE IF Len(lk) = 0
          THEN Finish(c, cl, res) /\ UNCHANGED <<wb, h>>
          ELSE \E raw \in LoaderOutcomes(lk) :
               LET o == wrapped(raw)
               IN /\ h' = [h EXCEPT !.loader[c] =
                                Append(@, [keys |-> lk, out |-> o,
                                           panic |-> raw.err = Panic]),
                                      !.panicked = @ \/ raw.err = Panic]
                  /\ IF o.err = Panic
                     THEN Recovered(c, cl, res) /\ UNCHANGED wb
                     ELSE IF o.err /= ErrNil
                     THEN Return(c, cl, o.err, <<>>) /\ UNCHANGED wb
                     ELSE IF ~CountOK(o.resp, lk)
                     THEN Return(c, cl, ErrUnknown, <<>>) /\ wb' = wb
                     ELSE /\ Finish(c, cl, Merge(res, o.resp))
                          /\ wb' = wb \o ToCache(res, o.resp)
    /\ UNCHANGED <<maxEntries, chanCap, ctor, routerVars, storeVars, chan, closed, ctxDone, apc, cur,
                   panicking, quota>>

\* the calls on the LoadingCache, with the sets their arguments are drawn from
LoadingGet(c, K, X) ==
    \E k \in K, ctx \in X : Begin(c, "Loading.Get", <<k>>, <<>>, ctx)

LoadingGetBatch(c, KS, X) ==
    \E ks \in KS, ctx \in X : Begin(c, "Loading.GetBatch", ks, <<>>, ctx)

\* the next l.Put(o.Key, o.Value) of the goroutines GetBatch started; they
\* are run one after the other, in the order they were started
WriteBack ==
    /\ call[Writer].n < Len(wb)
    /\ Begin(Writer, "Put", <<>>, <<wb[call[Writer].n + 1]>>, "live")

(* ------------------------------------------------------------------ *)
(* The actor goroutine of NewBasicCache                                *)
(* ------------------------------------------------------------------ *)

\* a receive case of the select is ready: a request is buffered, or the
\* channel is closed and drained (the receive then yields ok = false)
CanRecv(ch) == Len(chan[ch]) > 0 \/ closed[ch]

\* the return of the goroutine: the deferred c.Close() runs first
ActorExit ==
    /\ apc' = ClosePc[1]
    /\ cur' = NoCur
    /\ h' = h

\* Serve taking the request sent last instead of the one sent first
ServeNewest(ch, st, resp) ==
    LET n == Len(chan[ch])
        r == chan[ch][n]
    IN /\ chan' = [chan EXCEPT ![ch] = SubSeq(@, 1, n - 1)]
       /\ SetStore(st)
       /\ h' = HServe(ch, r, Store, st, resp)
       /\ apc' = "reply"
       /\ cur' = [c |-> r.c, n |-> r.n, resp |-> resp]

\* a request r is taken from channel ch and served; st is the store after
\* it and resp the reply to send on r.c
Serve(ch, st, resp) ==
    /\ chan' = [chan EXCEPT ![ch] = Tail(@)]
    /\ SetStore(st)
    /\ h' = HServe(ch, Head(chan[ch]), Store, st, resp)
    /\ apc' = "reply"
    /\ cur' = [c |-> Head(chan[ch]).c, n |-> Head(chan[ch]).n, resp |-> resp]

\* the loop of the get case leaving out the keys that are not found
RECURSIVE getAllFound(_, _, _)
getAllFound(st, keys, acc) ==
    IF keys = <<>> THEN <<st, acc>>
    ELSE LET g == cacheGet(st, Head(keys))
         IN getAllFound(g[1], Tail(keys),
                        IF g[3]
                        THEN Append(acc, [key |-> Head(keys), value |-> g[2],
                                          ok |-> g[3]])
                        ELSE acc)

\* the loop over r.keys of the get case: <<store, results>>
RECURSIVE getAll(_, _, _)
getAll(st, keys, acc) ==
    IF keys = <<>> THEN <<st, acc>>
    ELSE LET g == cacheGet(st, Head(keys))
         IN getAll(g[1], Tail(keys),
                   Append(acc, [key |-> Head(keys), value |-> g[2], ok |-> g[3]]))

\* case <-ctx.Done()
ActorCtxDone ==
    /\ apc = "select"
    /\ ctxDone
    /\ ActorExit
    /\ UNCHANGED <<maxEntries, chanCap, ctor, routerVars, wb, storeVars, chan, closed, ctxDone, panicking,
                   pc, call, ret, quota>>

\* case r, ok := <-c.get
ActorGet ==
    /\ apc = "select"
    /\ CanRecv("get")
    /\ IF Len(chan["get"]) = 0
       THEN ActorExit /\ UNCHANGED <<storeVars, chan>>
       ELSE LET g == getAll(Store, Head(chan["get"]).keys, <<>>)
            IN Serve("get", g[1], g[2])
    /\ UNCHANGED <<maxEntries, chanCap, ctor, routerVars, wb, closed, ctxDone, panicking, pc, call, ret, quota>>

\* case r, ok := <-c.len
ActorLen ==
    /\ apc = "select"
    /\ CanRecv("len")
    /\ IF Len(chan["len"]) = 0
       THEN ActorExit /\ UNCHANGED <<storeVars, chan>>
       ELSE Serve("len", Store, <<cacheLen(Store)>>)
    /\ UNCHANGED <<maxEntries, chanCap, ctor, routerVars, wb, closed, ctxDone, panicking, pc, call, ret, quota>>

\* the put case acknowledging the request without cache.put
ActorPutLost ==
    /\ apc = "select"
    /\ CanRecv("put")
    /\ IF Len(chan["put"]) = 0
       THEN ActorExit /\ UNCHANGED <<storeVars, chan>>
       ELSE Serve("put", Store, <<>>)
    /\ UNCHANGED <<maxEntries, chanCap, ctor, routerVars, wb, closed, ctxDone, panicking, pc, call, ret, quota>>

\* the put case taken while the reply to the request before is still to be
\* received
ActorPutEager ==
    /\ apc \in {"select", "reply"}
    /\ CanRecv("put")
    /\ IF Len(chan["put"]) = 0
       THEN ActorExit /\ UNCHANGED <<storeVars, chan>>
       ELSE LET r == Head(chan["put"])
            IN Serve("put", cachePut(Store, maxEntries, r.keys[1], r.v), <<>>)
    /\ UNCHANGED <<maxEntries, chanCap, ctor, routerVars, wb, closed, ctxDone, panicking, pc, call, ret, quota>>

\* case r, ok := <-c.put
ActorPut ==
    /\ apc = "select"
    /\ CanRecv("put")
    /\ IF Len(chan["put"]) = 0
       THEN ActorExit /\ UNCHANGED <<storeVars, chan>>
       ELSE LET r == Head(chan["put"])
            IN Serve("put", cachePut(Store, maxEntries, r.keys[1], r.v), <<>>)
    /\ UNCHANGED <<maxEntries, chanCap, ctor, routerVars, wb, closed, ctxDone, panicking, pc, call, ret, quota>>

\* case r, ok := <-c.rm
ActorRm ==
    /\ apc = "select"
    /\ CanRecv("rm")
    /\ IF Len(chan["rm"]) = 0
       THEN ActorExit /\ UNCHANGED <<storeVars, chan>>
       ELSE LET r == Head(chan["rm"])
            IN Serve("rm", cacheRemove(Store, r.keys[1]), <<>>)
    /\ UNCHANGED <<maxEntries, chanCap, ctor, routerVars, wb, closed, ctxDone, panicking, pc, call, ret, quota>>

\* r.c <- resp when the caller has already returned and closed r.c: the send
\* panics; nothing in the goroutine recovers it, its deferred calls run
ActorPanic ==
    /\ apc = "reply"
    /\ ~ChOpen(cur.c, cur.n)
    /\ panicking' = TRUE
    /\ ActorExit
    /\ UNCHANGED <<maxEntries, chanCap, ctor, routerVars, wb, storeVars, chan, closed, ctxDone, pc, call, ret,
                   quota>>

\* one close(...) of the deferred c.Close() of the goroutine
ActorCloseStep ==
    /\ apc \in ClosePcs
    /\ LET i == CloseIdx(apc)
           ch == CloseOrder[i]
       IN IF closed[ch]
          THEN /\ apc' = "clear"
               /\ UNCHANGED closed
          ELSE /\ closed' = [closed EXCEPT ![ch] = TRUE]
               /\ apc' = IF i = 4 THEN "clear" ELSE ClosePc[i + 1]
    /\ UNCHANGED <<maxEntries, chanCap, ctor, routerVars, wb, storeVars, chan, ctxDone, cur, panicking, pc,
                   call, ret, quota, h>>

\* the deferred cache.clear(); after it the goroutine has ended, and an
\* unrecovered panic ends the whole program
ActorClear ==
    /\ apc = "clear"
    /\ SetStore(clear(Store))
    /\ apc' = IF panicking THEN "crashed" ELSE "done"
    /\ UNCHANGED <<maxEntries, chanCap, ctor, routerVars, wb, chan, closed, ctxDone, cur, panicking, pc, call,
                   ret, quota, h>>

(* ------------------------------------------------------------------ *)
(* lru_by_partition.go: the PartitionedCache. The cache of a partition  *)
(* is any Cache; here it is a store on which a call takes effect in one *)
(* step, and which fails every call once it is closed.                 *)
(* ------------------------------------------------------------------ *)
ErrInvalidPartition == "ErrInvalidPartition"
ErrPartitioner == "ErrPartitioner"
NoCache == NilVal

PartitionedOps == {"Partitioned.Get", "Partitioned.GetBatch", "Partitioned.Put",
                   "Partitioned.Remove", "Partitioned.Len", "Partitioned.Close"}

\* the Partitioner given to NewPartitionedCache: the keys of the caches are
\* dealt out over the partitions in turn
partitioner(k) ==
    IF k = BadKey THEN [part |-> NoCache, err |-> ErrPartitioner]
    ELSE IF k = UnknownKey THEN [part |-> NumParts + 1, err |-> ErrNil]
    ELSE [part |-> ((k - 1) % NumParts) + 1, err |-> ErrNil]

Resolved(c, err) == [c |-> c, err |-> err]

\* getCacheForKey: the cache of a partition is named by the partition
\* a resolution that gives every key the cache of one and the same partition
getCacheForKeyFirst(tbl, k) ==
    IF tbl = {} THEN Resolved(NoCache, ErrAttemptToUseInvalidCache)
    ELSE IF partitioner(k).err /= ErrNil THEN Resolved(NoCache, partitioner(k).err)
    ELSE Resolved(CHOOSE d \in tbl : \A e \in tbl : d <= e, ErrNil)

getCacheForKey(tbl, k) ==
    IF tbl = {} THEN Resolved(NoCache, ErrAttemptToUseInvalidCache)
    ELSE IF partitioner(k).err /= ErrNil THEN Resolved(NoCache, partitioner(k).err)
    ELSE IF partitioner(k).part \notin tbl THEN Resolved(NoCache, ErrInvalidPartition)
    ELSE Resolved(partitioner(k).part, ErrNil)

\* the index of the process of cache c, 0 when there is none
ProcessOf(procs, c) ==
    IF \E i \in 1..Len(procs) : procs[i].c = c
    THEN CHOOSE i \in 1..Len(procs) : procs[i].c = c
    ELSE 0

\* the loop over keys that starts a process for every key
RECURSIVE ResolveLoopNoGroup(_, _, _)
ResolveLoopNoGroup(tbl, keys, procs) ==
    IF keys = <<>> THEN [err |-> ErrNil, procs |-> procs]
    ELSE LET r == getCacheForKey(tbl, Head(keys))
         IN IF r.err /= ErrNil THEN [err |-> r.err, procs |-> <<>>]
            ELSE ResolveLoopNoGroup(tbl, Tail(keys),
                                    Append(procs, [c |-> r.c, keys |-> <<Head(keys)>>]))

\* the loop over keys that passes over a key that does not resolve
RECURSIVE ResolveLoopSkipsBad(_, _, _)
ResolveLoopSkipsBad(tbl, keys, procs) ==
    IF keys = <<>> THEN [err |-> ErrNil, procs |-> procs]
    ELSE LET r == getCacheForKey(tbl, Head(keys))
             i == ProcessOf(procs, r.c)
         IN IF r.err /= ErrNil THEN ResolveLoopSkipsBad(tbl, Tail(keys), procs)
            ELSE ResolveLoopSkipsBad(tbl, Tail(keys),
                             IF i = 0
                             THEN Append(procs, [c |-> r.c, keys |-> <<Head(keys)>>])
                             ELSE [procs EXCEPT ![i].keys = Append(@, Head(keys))])

\* the loop over keys of GetBatch: every key is resolved and added to the
\* process of its cache; the first key that does not resolve ends the call
RECURSIVE ResolveLoop(_, _, _)
ResolveLoop(tbl, keys, procs) ==
    IF keys = <<>> THEN [err |-> ErrNil, procs |-> procs]
    ELSE LET r == getCacheForKey(tbl, Head(keys))
             i == ProcessOf(procs, r.c)
         IN IF r.err /= ErrNil THEN [err |-> r.err, procs |-> <<>>]
            ELSE ResolveLoop(tbl, Tail(keys),
                             IF i = 0
                             THEN Append(procs, [c |-> r.c, keys |-> <<Head(keys)>>])
                             ELSE [procs EXCEPT ![i].keys = Append(@, Head(keys))])

\* a goroutine of the fan-out with its channel: started for call n of caller
\* owner; st is "new" before the delegate's GetBatch, "got" after it, "sent"
\* once the result is in the channel, "panicked" when the send found the
\* channel closed
Process(owner, n, p) ==
    [owner |-> owner, n |-> n, c |-> p.c, keys |-> p.keys, st |-> "new",
     result |-> <<>>, err |-> ErrNil, closed |-> FALSE]

\* a goroutine of a fan-out has panicked: nothing recovers it, the program ends
Crashed == \E i \in 1..Len(processes) : processes[i].st = "panicked"

\* a call of a PartitionedCache is entered by caller c; stage "idle": it has
\* returned err and out already
PEnter(c, cl, stage, err, out) ==
    /\ pc' = [pc EXCEPT ![c] = stage]
    /\ call' = NotSolo([call EXCEPT ![c] = IF stage = "idle" THEN Ended(cl) ELSE cl], c)
    /\ ret' = NotSolo([ret EXCEPT ![c] =
                          IF stage = "idle"
                          THEN [op |-> cl.op, err |-> err, out |-> out,
                                solo |-> cl.solo, late |-> cl.late,
                                ctx |-> cl.ctx, idx |-> 0]
                          ELSE NoRet], c)

PCall(c, op, keys, vals, ctx) ==
    [op |-> op, keys |-> keys, vals |-> vals, idx |-> 1, n |-> call[c].n + 1,
     ctx |-> ctx, solo |-> Alone(c), late |-> IF h.pclosed THEN "close" ELSE "no",
     res |-> <<>>, t |-> 0]

\* no caller holds the read lock (Len holds it while it asks the caches)
NoReader == \A d \in Callers : pc[d] /= "plen"

PReady(c) ==
    /\ ~Crashed
    /\ pc[c] = "idle"
    /\ call[c].n < quota[c]

\* GetBatch up to the start of the goroutines (Get is GetBatch of one key)
PBeginGet(c, op, keys, ctx) ==
    /\ PReady(c)
    /\ LET cl == PCall(c, op, keys, <<>>, ctx)
           r == ResolveLoop(partitions, keys, <<>>)
       IN IF ctx = "done"
          THEN PEnter(c, cl, "idle", ErrInvalidContext, <<>>) /\ UNCHANGED processes
          ELSE IF r.err /= ErrNil
          THEN PEnter(c, cl, "idle", r.err, <<>>) /\ UNCHANGED processes
          ELSE /\ PEnter(c, cl, "collect", ErrNil, <<>>)
               /\ processes' = processes \o
                     [i \in 1..Len(r.procs) |-> Process(c, cl.n, r.procs[i])]
    /\ h' = HBegin(c, op, keys, <<>>, ctx)
    /\ UNCHANGED <<maxEntries, chanCap, ctor, wb, storeVars, chan, closed, ctxDone, apc,
                   cur, panicking, quota, partitions, delegates>>

PartitionedGet(c, K, X) ==
    \E k \in K, ctx \in X : PBeginGet(c, "Partitioned.Get", <<k>>, ctx)

PartitionedGetBatch(c, KS, X) ==
    \E ks \in KS, ctx \in X : PBeginGet(c, "Partitioned.GetBatch", ks, ctx)

\* the goroutine of process i calls GetBatch of its cache
WorkerCall(i) ==
    /\ ~Crashed
    /\ processes[i].st = "new"
    /\ LET p == processes[i]
           d == delegates[p.c]
           g == getAll(d.st, p.keys, <<>>)
       IN IF d.closed
          THEN /\ processes' = [processes EXCEPT ![i].st = "got",
                                                 ![i].err = ErrAttemptToUseInvalidCache]
               /\ UNCHANGED delegates
          ELSE /\ processes' = [processes EXCEPT ![i].st = "got", ![i].result = g[2]]
               /\ delegates' = [delegates EXCEPT ![p.c].st = g[1]]
    /\ UNCHANGED <<maxEntries, chanCap, ctor, wb, storeVars, chan, closed, ctxDone, apc,
                   cur, panicking, pc, call, ret, quota, h, partitions>>

\* pp.ch <- &resp{...}: the channel holds one result, so the send does not
\* wait; on a closed channel it panics
WorkerSend(i) ==
    /\ ~Crashed
    /\ processes[i].st = "got"
    /\ processes' = [processes EXCEPT ![i].st = IF processes[i].closed THEN "panicked"
                                                ELSE "sent"]
    /\ UNCHANGED <<maxEntries, chanCap, ctor, wb, storeVars, chan, closed, ctxDone, apc,
                   cur, panicking, pc, call, ret, quota, h, partitions, delegates>>

\* the processes of caller c's present call in the order of their partitions
MineByPartition(c) ==
    LET S == {i \in 1..Len(processes) :
                 processes[i].owner = c /\ processes[i].n = call[c].n}
    IN [j \in 1..Cardinality(S) |->
           CHOOSE i \in S :
               Cardinality({x \in S : processes[x].c < processes[i].c}) = j - 1]

\* the processes of caller c's present call, in the order they were started
Mine(c) ==
    SelectSeq([i \in 1..Len(processes) |-> i],
              LAMBDA i : processes[i].owner = c /\ processes[i].n = call[c].n)

\* the deferred close(p.ch) of every process of the call
CloseMine(c) ==
    [i \in 1..Len(processes) |->
        IF processes[i].owner = c /\ processes[i].n = call[c].n
        THEN [processes[i] EXCEPT !.closed = TRUE]
        ELSE processes[i]]

\* what Get / GetBatch returns for the results res
PFinish(c, cl, res) ==
    IF cl.op = "Partitioned.Get"
    THEN IF Len(res) = 0 THEN Return(c, cl, ErrUnknown, <<>>)
         ELSE Return(c, cl, ErrNil, <<res[1]>>)
    ELSE Return(c, cl, ErrNil, res)

\* the loop returning, with the error of a cache, the results it has so far
CollectPartial(c) ==
    /\ ~Crashed
    /\ pc[c] = "collect"
    /\ LET cl == call[c]
           mine == Mine(c)
       IN IF cl.idx > Len(mine)
          THEN PFinish(c, cl, cl.res) /\ processes' = CloseMine(c)
          ELSE /\ processes[mine[cl.idx]].st = "sent"
               /\ IF processes[mine[cl.idx]].err /= ErrNil
                  THEN /\ Return(c, cl, processes[mine[cl.idx]].err, cl.res)
                       /\ processes' = CloseMine(c)
                  ELSE /\ call' = [call EXCEPT
                                      ![c].res = @ \o processes[mine[cl.idx]].result,
                                      ![c].idx = @ + 1]
                       /\ UNCHANGED <<pc, ret, processes>>
    /\ UNCHANGED <<maxEntries, chanCap, ctor, wb, storeVars, chan, closed, ctxDone, apc,
                   cur, panicking, quota, h, partitions, delegates>>

\* the loop "for _, p := range processes { r := <-p.ch ... }", one round
Collect(c) ==
    /\ ~Crashed
    /\ pc[c] = "collect"
    /\ LET cl == call[c]
           mine == Mine(c)
       IN IF cl.idx > Len(mine)
          THEN PFinish(c, cl, cl.res) /\ processes' = CloseMine(c)
          ELSE /\ processes[mine[cl.idx]].st = "sent"
               /\ IF processes[mine[cl.idx]].err /= ErrNil
                  THEN /\ Return(c, cl, processes[mine[cl.idx]].err, <<>>)
                       /\ processes' = CloseMine(c)
                  ELSE /\ call' = [call EXCEPT
                                      ![c].res = @ \o processes[mine[cl.idx]].result,
                                      ![c].idx = @ + 1]
                       /\ UNCHANGED <<pc, ret, processes>>
    /\ UNCHANGED <<maxEntries, chanCap, ctor, wb, storeVars, chan, closed, ctxDone, apc,
                   cur, panicking, quota, h, partitions, delegates>>

\* Put: the key is resolved and the pair is put into its cache
PartitionedPut(c, K, V) ==
    \E k \in K, v \in V :
        /\ PReady(c)
        /\ LET cl == PCall(c, "Partitioned.Put", <<k>>, <<KV(k, v)>>, "none")
               r == getCacheForKey(partitions, k)
           IN IF r.err /= ErrNil
              THEN PEnter(c, cl, "idle", r.err, <<>>) /\ UNCHANGED delegates
              ELSE IF delegates[r.c].closed
              THEN /\ PEnter(c, cl, "idle", ErrAttemptToUseInvalidCache, <<>>)
                   /\ UNCHANGED delegates
              ELSE /\ PEnter(c, cl, "idle", ErrNil, <<>>)
                   /\ delegates' = [delegates EXCEPT
                                       ![r.c].st = cachePut(@, maxEntries, k, v)]
        /\ h' = HBegin(c, "Partitioned.Put", <<k>>, <<KV(k, v)>>, "none")
        /\ UNCHANGED <<maxEntries, chanCap, ctor, wb, storeVars, chan, closed, ctxDone,
                       apc, cur, panicking, quota, partitions, processes>>

\* Remove: the key is resolved and removed from its cache
PartitionedRemove(c, K) ==
    \E k \in K :
        /\ PReady(c)
        /\ LET cl == PCall(c, "Partitioned.Remove", <<k>>, <<>>, "none")
               r == getCacheForKey(partitions, k)
           IN IF r.err /= ErrNil
              THEN PEnter(c, cl, "idle", r.err, <<>>) /\ UNCHANGED delegates
              ELSE IF delegates[r.c].closed
              THEN /\ PEnter(c, cl, "idle", ErrAttemptToUseInvalidCache, <<>>)
                   /\ UNCHANGED delegates
              ELSE /\ PEnter(c, cl, "idle", ErrNil, <<>>)
                   /\ delegates' = [delegates EXCEPT ![r.c].st = cacheRemove(@, k)]
        /\ h' = HBegin(c, "Partitioned.Remove", <<k>>, <<>>, "none")
        /\ UNCHANGED <<maxEntries, chanCap, ctor, wb, storeVars, chan, closed, ctxDone,
                       apc, cur, panicking, quota, partitions, processes>>

\* Len takes the read lock; idx - 1 is the total so far, res the partitions
\* asked so far
PartitionedLen(c) ==
    /\ PReady(c)
    /\ PEnter(c, PCall(c, "Partitioned.Len", <<>>, <<>>, "none"), "plen", ErrNil, <<>>)
    /\ h' = [HBegin(c, "Partitioned.Len", <<>>, <<>>, "none") EXCEPT
                 !.dead[c] = {d \in Parts : delegates[d].closed}]
    /\ UNCHANGED <<maxEntries, chanCap, ctor, wb, storeVars, chan, closed, ctxDone, apc,
                   cur, panicking, quota, routerVars>>

\* the loop of Len going on after a cache that gave an error
PLenStepIgnoresError(c) ==
    /\ ~Crashed
    /\ pc[c] = "plen"
    /\ LET cl == call[c]
           todo == partitions \ Range(cl.res)
       IN IF todo = {}
          THEN Return(c, cl, ErrNil, <<cl.idx - 1>>)
          ELSE \E d \in todo :
                  /\ call' = [call EXCEPT
                                 ![c].res = Append(@, d),
                                 ![c].idx = @ + IF delegates[d].closed THEN 0
                                                ELSE cacheLen(delegates[d].st)]
                  /\ UNCHANGED <<pc, ret>>
    /\ UNCHANGED <<maxEntries, chanCap, ctor, wb, storeVars, chan, closed, ctxDone, apc,
                   cur, panicking, quota, h, routerVars>>

\* one round of "for _, c := range p.partitions": the order is any order
PLenStep(c) ==
    /\ ~Crashed
    /\ pc[c] = "plen"
    /\ LET cl == call[c]
           todo == partitions \ Range(cl.res)
       IN IF todo = {}
          THEN Return(c, cl, ErrNil, <<cl.idx - 1>>)
          ELSE \E d \in todo :
                  IF delegates[d].closed
                  THEN Return(c, cl, ErrAttemptToUseInvalidCache, <<0>>)
                  ELSE /\ call' = [call EXCEPT
                                      ![c].res = Append(@, d),
                                      ![c].idx = @ + cacheLen(delegates[d].st)]
                       /\ UNCHANGED <<pc, ret>>
    /\ UNCHANGED <<maxEntries, chanCap, ctor, wb, storeVars, chan, closed, ctxDone, apc,
                   cur, panicking, quota, h, routerVars>>

\* Close under the write lock: every cache of the table is closed (a closed
\* cache is cleared) and the table is emptied
PartitionedClose(c) ==
    /\ PReady(c)
    /\ NoReader
    /\ PEnter(c, PCall(c, "Partitioned.Close", <<>>, <<>>, "none"), "idle", ErrNil, <<>>)
    /\ delegates' = [d \in Parts |->
                        IF d \in partitions
                        THEN [st |-> clear(delegates[d].st), closed |-> TRUE]
                        ELSE delegates[d]]
    /\ partitions' = {}
    /\ h' = [HBegin(c, "Partitioned.Close", <<>>, <<>>, "none") EXCEPT !.pclosed = TRUE]
    /\ UNCHANGED <<maxEntries, chanCap, ctor, wb, storeVars, chan, closed, ctxDone, apc,
                   cur, panicking, quota, processes>>

\* the cache of partition d ends by itself (its governing context is
\* cancelled): it is cleared and fails every later call
DelegateEnds(d) ==
    /\ ~Crashed
    /\ ~delegates[d].closed
    /\ delegates' = [delegates EXCEPT ![d] = [st |-> clear(@.st), closed |-> TRUE]]
    /\ UNCHANGED <<maxEntries, chanCap, ctor, wb, storeVars, chan, closed, ctxDone, apc,
                   cur, panicking, pc, call, ret, quota, h, partitions, processes>>

(* ------------------------------------------------------------------ *)
(* Specifications                                                      *)
(* ------------------------------------------------------------------ *)
\* the actor's select over its request channels, and its reply
Actor ==
    \/ ActorGet
    \/ ActorLen
    \/ ActorPut
    \/ ActorRm

\* the actor's way out: the panic of a reply on a closed response channel,
\* the deferred Close and clear
ActorEnd ==
    \/ ActorPanic
    \/ ActorCloseStep
    \/ ActorClear

\* Spec: two callers, MaxCalls calls each, in any interleaving; no call is
\* aborted and nobody closes the cache
Next ==
    \/ \E c \in Callers : Get(c, ConcKeys, {"live"})
    \/ \E c \in Callers : GetBatch(c, GetBatchInputs, {"live"})
    \/ \E c \in Callers : Put(c, ConcKeys, {c}, {"live"})
    \/ \E c \in Callers : PutBatch(c, PutBatchInputs, {"live"})
    \/ \E c \in Callers : Remove(c, ConcKeys)
    \/ \E c \in Callers : LenCall(c)
    \/ \E c \in Callers : Send(c)
    \/ \E c \in Callers : Recv(c)
    \/ Actor

Spec == Init /\ [][Next]_vars

\* SpecSeq: one caller making Put, Get, GetBatch, Remove and Len calls one
\* after another
NextSeq ==
    \/ Get(1, Keys, {"live"})
    \/ GetBatch(1, GetBatchInputs, {"live"})
    \/ Put(1, Keys, Vals, {"live"})
    \/ Remove(1, Keys)
    \/ LenCall(1)
    \/ Send(1)
    \/ Recv(1)
    \/ Actor

SpecSeq == InitSeq /\ [][NextSeq]_vars

\* SpecAbort: two callers whose calls may time out or be cancelled
NextAbort ==
    \/ \E c \in Callers : Get(c, {1}, {"live", "done"})
    \/ \E c \in Callers : Put(c, {1}, {1}, {"live", "done"})
    \/ \E c \in Callers : Remove(c, {1})
    \/ \E c \in Callers : LenCall(c)
    \/ \E c \in Callers : Send(c)
    \/ \E c \in Callers : Recv(c)
    \/ \E c \in Callers : Timeout(c)
    \/ \E c \in Callers : CancelCall(c)
    \/ \E c \in Callers : CtxAbort(c)
    \/ Actor
    \/ ActorEnd

SpecAbort == InitClose /\ [][NextAbort]_vars

\* SpecClose: two callers that also close the cache, and the governing
\* context may be cancelled
NextClose ==
    \/ \E c \in Callers : Get(c, {1}, {"live"})
    \/ \E c \in Callers : GetBatch(c, {<<>>}, {"live"})
    \/ \E c \in Callers : Put(c, {1}, {1, NilVal}, {"live"})
    \/ \E c \in Callers : PutBatch(c, {<<>>}, {"live"})
    \/ \E c \in Callers : Remove(c, {1})
    \/ \E c \in Callers : LenCall(c)
    \/ \E c \in Callers : Close(c)
    \/ \E c \in Callers : Send(c)
    \/ \E c \in Callers : Recv(c)
    \/ \E c \in Callers : Timeout(c)
    \/ \E c \in Callers : CloseStep(c)
    \/ CancelGoverning
    \/ ActorCtxDone
    \/ Actor
    \/ ActorEnd

SpecClose == InitClose /\ [][NextClose]_vars

\* SpecBatch: caller 1 puts batches and single values, some nil, with
\* contexts live or already cancelled; calls may time out or be cancelled,
\* caller 2 makes one Get, Remove or Close
NextBatch ==
    \/ PutBatch(1, FailingBatchInputs, {"live", "done"})
    \/ Put(1, {3}, {1, NilVal}, {"live", "done"})
    \/ \E c \in Callers : Get(c, {1}, {"live", "done"})
    \/ \E c \in Callers : GetBatch(c, {<<2, 1>>}, {"done"})
    \/ Remove(2, {1})
    \/ Close(2)
    \/ \E c \in Callers : Send(c)
    \/ \E c \in Callers : Recv(c)
    \/ \E c \in Callers : Timeout(c)
    \/ \E c \in Callers : CancelCall(c)
    \/ \E c \in Callers : CtxAbort(c)
    \/ \E c \in Callers : CloseStep(c)
    \/ Actor
    \/ ActorEnd

SpecBatch == InitClose /\ [][NextBatch]_vars

\* SpecNew: one call of a constructor
NextNew ==
    \/ ConstructBasic
    \/ ConstructLoading
    \/ ConstructPartitioned

SpecNew == InitNew /\ [][NextNew]_vars

\* SpecOrder: two callers and request channels that hold two requests
NextOrder ==
    \/ \E c \in Callers : Get(c, {1}, {"live"})
    \/ \E c \in Callers : Put(c, {1}, {c}, {"live"})
    \/ \E c \in Callers : Remove(c, {1})
    \/ \E c \in Callers : LenCall(c)
    \/ \E c \in Callers : Send(c)
    \/ \E c \in Callers : Recv(c)
    \/ Actor

SpecOrder == InitOrder /\ [][NextOrder]_vars

\* SpecLoad: a LoadingCache, its loader, and the goroutines that store what
\* was loaded
LoadKeys == {1, 2}
LoadBatchInputs == {<<1, 2>>, <<1, 1>>}

NextLoad ==
    \/ LoadingGet(1, LoadKeys, {"live"})
    \/ LoadingGetBatch(1, LoadBatchInputs, {"live"})
    \/ LenCall(1)
    \/ Remove(1, {1})
    \/ WriteBack
    \/ \E c \in Procs : Send(c)
    \/ \E c \in Procs : Recv(c)
    \/ \E c \in Callers : Load(c)
    \/ Actor

SpecLoad == InitLoad /\ [][NextLoad]_vars

\* SpecWriteBack: a LoadingCache whose write-back Put may time out and which
\* the second caller may close; the callers' own calls do not time out
NextWriteBack ==
    \/ LoadingGet(1, {1}, {"live"})
    \/ LoadingGetBatch(1, {<<1, 2>>}, {"live"})
    \/ Close(2)
    \/ WriteBack
    \/ \E c \in Procs : Send(c)
    \/ \E c \in Procs : Recv(c)
    \/ Timeout(Writer)
    \/ \E c \in Callers : CloseStep(c)
    \/ \E c \in Callers : Load(c)
    \/ ActorGet
    \/ ActorPut
    \/ ActorEnd

SpecWriteBack == InitWriteBack /\ [][NextWriteBack]_vars

\* SpecPartitioned: two callers of a PartitionedCache with a cache for each
\* partition, which they may close
PartitionedBatchInputs == {<<1, 2, 3>>, <<2, 1>>, <<1, UnknownKey>>, <<2, BadKey>>}

NextPartitioned ==
    \/ \E c \in Callers : PartitionedGet(c, {1}, {"live"})
    \/ \E c \in Callers : PartitionedGetBatch(c, PartitionedBatchInputs, {"live", "done"})
    \/ \E c \in Callers : PartitionedPut(c, Keys, {1})
    \/ \E c \in Callers : PartitionedRemove(c, {1})
    \/ \E c \in Callers : PartitionedLen(c)
    \/ \E c \in Callers : PLenStep(c)
    \/ \E c \in Callers : PartitionedClose(c)
    \/ \E c \in Callers : Collect(c)
    \/ \E i \in 1..Len(processes) : WorkerCall(i)
    \/ \E i \in 1..Len(processes) : WorkerSend(i)

SpecPartitioned == InitPartitioned /\ [][NextPartitioned]_vars

\* SpecDelegateEnds: two callers of a PartitionedCache that stays open while
\* the cache of a partition may end by itself
NextDelegateEnds ==
    \/ \E c \in Callers : PartitionedGetBatch(c, {<<1, 2, 3>>}, {"live"})
    \/ \E c \in Callers : PartitionedPut(c, {1, 2}, {1})
    \/ \E c \in Callers : PartitionedLen(c)
    \/ \E c \in Callers : PLenStep(c)
    \/ \E c \in Callers : Collect(c)
    \/ \E i \in 1..Len(processes) : WorkerCall(i)
    \/ \E i \in 1..Len(processes) : WorkerSend(i)
    \/ \E d \in Parts : DelegateEnds(d)

SpecDelegateEnds == InitPartitioned /\ [][NextDelegateEnds]_vars

\* SpecComposite: the three GetBatch side by side: of the BasicCache, of
\* the LoadingCache that wraps it, and of a PartitionedCache in which the
\* cache of the last partition may end
CompositeBatchInputs == {<<1, 2>>, <<1, 1>>}
CompositeRouterInputs == {<<1, 2, 3>>, <<2, BadKey>>}

NextComposite ==
    \/ GetBatch(1, {<<1, 2>>}, {"live", "done"})
    \/ LoadingGetBatch(1, CompositeBatchInputs, {"live"})
    \/ PartitionedGetBatch(2, CompositeRouterInputs, {"live", "done"})
    \/ WriteBack
    \/ \E c \in Procs : Send(c)
    \/ \E c \in Procs : Recv(c)
    \/ Timeout(1)
    \/ CancelCall(1)
    \/ Load(1)
    \/ ActorGet
    \/ ActorPut
    \/ ActorEnd
    \/ Collect(2)
    \/ \E i \in 1..Len(processes) : WorkerCall(i)
    \/ \E i \in 1..Len(processes) : WorkerSend(i)
    \/ DelegateEnds(NumParts)

SpecComposite == InitComposite /\ [][NextComposite]_vars

\* SpecWrappedFails: a LoadingCache whose wrapped GetBatch may fail: the
\* call may time out or be cancelled, and the second caller may close the
\* cache
NextWrappedFails ==
    \/ LoadingGetBatch(1, {<<1, 2>>}, {"live"})
    \/ Close(2)
    \/ WriteBack
    \/ \E c \in Procs : Send(c)
    \/ \E c \in Procs : Recv(c)
    \/ Timeout(1)
    \/ CancelCall(1)
    \/ CtxAbort(1)
    \/ CloseStep(2)
    \/ Load(1)
    \/ ActorGet
    \/ ActorPut
    \/ ActorEnd

SpecWrappedFails == InitWriteBack /\ [][NextWrappedFails]_vars

\* SpecStale: one caller of a LoadingCache that loads a key and then puts
\* or removes it, while the goroutines of GetBatch store what was loaded
NextStale ==
    \/ LoadingGet(1, {1}, {"live"})
    \/ Put(1, {1}, {1}, {"live"})
    \/ Remove(1, {1})
    \/ WriteBack
    \/ \E c \in Procs : Send(c)
    \/ \E c \in Procs : Recv(c)
    \/ Load(1)
    \/ ActorGet
    \/ ActorPut
    \/ ActorRm

SpecStale == InitLoad /\ [][NextStale]_vars

\* SpecQueued: the first caller's requests are queued while the second
\* caller closes the cache or the governing context is cancelled; the first
\* caller's calls may time out or be cancelled
NextQueued ==
    \/ Get(1, {1}, {"live"})
    \/ Put(1, {1}, {1}, {"live"})
    \/ Close(2)
    \/ \E c \in Callers : Send(c)
    \/ \E c \in Callers : Recv(c)
    \/ Timeout(1)
    \/ CancelCall(1)
    \/ CtxAbort(1)
    \/ CloseStep(2)
    \/ CancelGoverning
    \/ ActorCtxDone
    \/ ActorGet
    \/ ActorPut
    \/ ActorEnd

SpecQueued == InitClose /\ [][NextQueued]_vars

\* SpecTimer: one caller whose waits are timed by a clock: a wait ends with
\* the actor's reply or, after TimeoutD ticks, with the timer
TimerBatchInputs == {<<KV(1, 1), KV(2, 1)>>}

NextTimer ==
    \/ PutBatch(1, TimerBatchInputs, {"live"})
    \/ Put(1, {3}, {1}, {"live"})
    \/ Get(1, {1, 2}, {"live"})
    \/ Send(1)
    \/ Recv(1)
    \/ Tick(1)
    \/ TimerFires(1)
    \/ ActorGet
    \/ ActorPut
    \/ ActorEnd

SpecTimer == InitSeq /\ [][NextTimer]_vars

(* ------------------------------------------------------------------ *)
(* Claims                                                              *)
(* ------------------------------------------------------------------ *)
Min(a, b) == IF a < b THEN a ELSE b

\* caller c has returned from a call of operation op
Returned(c, op) == pc[c] = "idle" /\ ret[c].op = op

\* no key can have been evicted: the cache is unbounded or no more keys
\* have been put than it holds
NoEviction == maxEntries = 0 \/ Len(h.puts) <= maxEntries

\* the last n keys of the first-put order
LastPut(n) == {h.puts[i] : i \in (Len(h.puts) - n + 1)..Len(h.puts)}

\* C1: with calls issued one after another and no eviction (as for any
\* sequence of calls on one key), a Get returns no error and the value of
\* the last acknowledged Put of its key with found = true, or found = false
\* when there was no Put or a Remove of the key came after it.
C1_GetReturnsLastMutation ==
    \A c \in Callers :
        (Returned(c, "Get") /\ ret[c].solo /\ NoEviction) =>
            /\ ret[c].err = ErrNil
            /\ ret[c].out[1].ok = (h.lastMut[ret[c].out[1].key] /= NilVal)
            /\ ret[c].out[1].value = h.lastMut[ret[c].out[1].key]

\* a Get of a key that was put and then removed has returned found = false
C1_Witness ==
    /\ Returned(1, "Get")
    /\ NoEviction
    /\ ret[1].out[1].key \in Range(h.puts)
    /\ ~ret[1].out[1].ok

\* C3: starting empty with capacity N > 0, once N+k (k > 0) distinct keys
\* have been Put one after another, followed at most by Len and Get calls,
\* the stored keys are exactly the last N keys put, Len returns N and a Get
\* finds a key exactly when it is one of those N.
C3_LastNSurvive ==
    (/\ h.phase \in {"puts", "reads"}
     /\ maxEntries > 0
     /\ Len(h.puts) > maxEntries
     /\ pc[1] = "idle") =>
        /\ KeysOf(Store) = LastPut(maxEntries)
        /\ cacheLen(Store) = maxEntries
        /\ ret[1].op = "Len" => ret[1].out = <<maxEntries>>
        /\ ret[1].op = "Get" =>
               ret[1].out[1].ok = (ret[1].out[1].key \in LastPut(maxEntries))

\* three keys were put into a cache of capacity 2 and a Get of the first
\* one has returned found = false
C3_Witness ==
    /\ h.phase = "reads"
    /\ maxEntries = 2
    /\ Len(h.puts) = 3
    /\ Returned(1, "Get")
    /\ ret[1].out[1].key = h.puts[1]
    /\ ~ret[1].out[1].ok

\* C4: the key a Put evicts is the stored key whose last touch (a Put of
\* it, or a Get/GetBatch that found it) is the oldest.
C4_EvictsLeastRecentlyTouched == h.evict.key = h.evict.oldest

\* a Put has evicted the second key put while the first one, touched again
\* in between, is still stored
C4_Witness ==
    /\ h.evict.key /= NoKey
    /\ Len(h.puts) >= 2
    /\ h.evict.key = h.puts[2]
    /\ h.puts[1] \in KeysOf(Store)

\* C2: with maxEntries = N > 0 the store never holds more than N entries
\* and Len never returns more than N; once N or more distinct keys have
\* been put and none removed, a Len issued after those Puts returns N.
C2_NeverMoreThanCapacity ==
    maxEntries > 0 =>
        /\ cacheLen(Store) <= maxEntries
        /\ \A c \in Callers :
               Returned(c, "Len") =>
                   /\ ret[c].out[1] <= maxEntries
                   /\ (/\ ret[c].solo
                       /\ ~h.removed
                       /\ Len(h.puts) >= maxEntries) => ret[c].out[1] = maxEntries

\* both keys were put into a cache of capacity 1 by two callers and a Len
\* has returned 1
C2_Witness ==
    /\ maxEntries = 1
    /\ h.lastMut[1] = 1
    /\ h.lastMut[2] = 2
    /\ ~h.removed
    /\ \E c \in Callers : Returned(c, "Len") /\ ret[c].solo /\ ret[c].out = <<1>>

\* C5: when no call is aborted, every Put returns no error; with no Remove,
\* a Len issued after the Puts of M distinct keys returns M on an unbounded
\* cache and min(M, N) with maxEntries = N > 0; and on an unbounded cache a
\* Get issued after them finds each key with the value last put for it.
C5_ConcurrentPuts ==
    \A c \in Callers :
        /\ (Returned(c, "Put") \/ Returned(c, "PutBatch")) => ret[c].err = ErrNil
        /\ (Returned(c, "Len") /\ ret[c].solo /\ ~h.removed) =>
               /\ ret[c].err = ErrNil
               /\ ret[c].out[1] = IF maxEntries = 0 THEN Len(h.puts)
                                  ELSE Min(Len(h.puts), maxEntries)
        /\ (/\ Returned(c, "Get")
            /\ ret[c].solo
            /\ ~h.removed
            /\ maxEntries = 0
            /\ ret[c].out[1].key \in Range(h.puts)) =>
               /\ ret[c].err = ErrNil
               /\ ret[c].out[1].ok
               /\ ret[c].out[1].value = h.lastMut[ret[c].out[1].key]

\* caller 1 has put key 1 and caller 2 key 2, each its own value, into an
\* unbounded cache and a Len has returned 2
C5_Witness ==
    /\ maxEntries = 0
    /\ h.lastMut[1] = 1
    /\ h.lastMut[2] = 2
    /\ ~h.removed
    /\ \E c \in Callers : Returned(c, "Len") /\ ret[c].solo /\ ret[c].out = <<2>>

\* caller c has returned from a call other than Close that began after
\* the event w ("close": a Close had returned, "exit": the actor had ended)
ReturnedAfter(c, w) ==
    /\ pc[c] = "idle"
    /\ ret[c].op \notin {"none", "Close"}
    /\ ret[c].late = w

\* C6: every call of Get, GetBatch, Put, PutBatch, Remove and Len that
\* begins after a Close has returned, with a context that is not cancelled,
\* returns ErrAttemptToUseInvalidCache and no result.
C6_AfterCloseInvalid ==
    \A c \in Callers :
        ReturnedAfter(c, "close") =>
            /\ ret[c].err = ErrAttemptToUseInvalidCache
            /\ ret[c].out = <<>>

\* C7: once any Close, of a caller or of the actor's exit path, has
\* completed, all four request channels are closed.
C7_CloseClosesAll ==
    (\/ \E c \in Callers : Returned(c, "Close")
     \/ apc \in {"clear", "done", "crashed"}) =>
        \A ch \in Chans : closed[ch]

\* C8: when the governing context is cancelled and the actor has ended, the
\* four request channels are closed (as soon as no caller is inside Close),
\* the store is cleared, no request is being served, and every call that
\* begins from then on returns ErrAttemptToUseInvalidCache.
C8_CancelledIsInvalid ==
    /\ (ctxDone /\ apc = "done" /\ \A c \in Callers : pc[c] \notin ClosePcs) =>
           /\ \A ch \in Chans : closed[ch]
           /\ cacheLen(Store) = 0
           /\ cur = NoCur
    /\ \A c \in Callers :
           (ctxDone /\ ReturnedAfter(c, "exit")) =>
               ret[c].err = ErrAttemptToUseInvalidCache

\* C9: when calls are aborted by their timeout or their context, and nobody
\* closes the cache or cancels the governing context, the actor stays in
\* its loop and never faults.
C9_AbortLeavesActorRunning ==
    /\ ~panicking
    /\ apc \in {"select", "reply"}

\* C10: a call that has not returned is never at a point where nothing can
\* release it: waiting for the reply, its timeout can fire; handing its
\* request to the actor, the send can complete or fail at once.
C10_AlwaysReleasable ==
    \A c \in Callers :
        pc[c] = "send" =>
            \/ closed[ChanOf(call[c].op)]
            \/ Len(chan[ChanOf(call[c].op)]) < chanCap
            \/ (call[c].op \in {"Put", "PutBatch"}
                /\ call[c].vals[call[c].idx].value = NilVal)

\* C11: a Get of key k issued when a Put(k, v) has been acknowledged to its
\* caller, with no Put or Remove of k and no eviction of k served since that
\* Put and until the Get is served, returns v with found = true and no
\* error, whichever caller made the Put.
C11_CompletedPutVisible ==
    \A c \in Callers :
        (Returned(c, "Get") /\ h.exp[c] /= NilVal) =>
            /\ ret[c].err = ErrNil
            /\ ret[c].out[1].ok
            /\ ret[c].out[1].value = h.exp[c]

\* caller 2, in its first call, has got the value caller 1 put, while
\* caller 1 was in another call
C11_Witness ==
    /\ Returned(2, "Get")
    /\ call[2].n = 1
    /\ ~ret[2].solo
    /\ h.exp[2] = 1
    /\ ret[2].out[1].ok
    /\ ret[2].out[1].value = 1

\* C12 (as stated): the request the actor serves is the one sent first of
\* all the requests waiting on the four channels.
C12_ServedInArrivalOrder == h.ahead.chans = {}

\* C12 (amended): the request the actor serves is the one sent first of the
\* requests waiting on its own channel; requests waiting on other channels
\* may have been sent before it.
C12_ServedInChannelOrder == h.ahead.ch \notin h.ahead.chans

\* two Puts were waiting on the put channel; the one sent first is being
\* served while the other one still waits
C12_Witness ==
    /\ apc = "reply"
    /\ h.ahead.ch = "put"
    /\ Len(chan["put"]) = 1
    /\ \E i \in 1..Len(h.order) : h.order[i][1] = "put"

\* the value stored for key k
StoredValue(k) == ll[IndexOf(ll, k)].value

\* C13: a GetBatch that returns the actor's reply returns no error and one
\* entry per requested key, in request order and duplicates included:
\* entry i carries keys[i], and is found, with the stored value, exactly
\* when keys[i] is in the store as the batch was served (no other request is
\* served before the reply is received); its single request is no longer
\* waiting.
C13_GetBatchOnePerKey ==
    [][\A c \in Callers :
          (pc[c] = "wait" /\ call[c].op = "GetBatch" /\ pc'[c] = "idle") =>
              /\ ret'[c].err = ErrNil
              /\ Len(ret'[c].out) = Len(call[c].keys)
              /\ \A e \in Range(h.order) : e[2] /= c
              /\ \A i \in 1..Len(call[c].keys) :
                     /\ ret'[c].out[i].key = call[c].keys[i]
                     /\ ret'[c].out[i].ok = (call[c].keys[i] \in KeysOf(Store))
                     /\ ret'[c].out[i].ok =>
                            ret'[c].out[i].value = StoredValue(call[c].keys[i])
                     /\ ~ret'[c].out[i].ok => ret'[c].out[i].value = NilVal]_vars

\* a GetBatch of <<1, 2, 1>> has returned key 1 found twice and key 2 not
\* found, while the other caller was in a call
C13_Witness ==
    \E c \in Callers :
        /\ Returned(c, "GetBatch")
        /\ ~ret[c].solo
        /\ Len(ret[c].out) = 3
        /\ ret[c].out[1].ok
        /\ ~ret[c].out[2].ok
        /\ ret[c].out[3].ok
        /\ ret[c].out[3].key = 1

\* the requests of caller c's present (or last) call that still wait
Waiting(c) == {i \in 1..Len(h.order) :
                  h.order[i][2] = c /\ h.order[i][3] = call[c].n}

PutOps == {"Put", "PutBatch"}

C15_NilRejectedBeforeAnySend ==
    \A c \in Callers :
        (pc[c] = "idle" /\ ret[c].op \in PutOps
                        /\ ret[c].err = ErrInvalidValueToAddToCache) =>
            h.applied[c] = <<>>

\* C15 (amended): a pair with a nil value is rejected with
\* ErrInvalidValueToAddToCache when the call comes to it, without a request
\* for it being sent and without a change to the channels or the store by
\* that step; the pairs before it in the batch have been sent and applied,
\* and no request of the call waits or is applied afterwards.
C15_NilPairRejectedUnsent ==
    /\ [](\A c \in Callers :
             (pc[c] = "idle" /\ ret[c].op \in PutOps
                             /\ ret[c].err = ErrInvalidValueToAddToCache) =>
                 /\ Len(h.applied[c]) = ret[c].idx - 1
                 /\ Waiting(c) = {})
    /\ [][\A c \in Callers :
             (/\ pc[c] = "send"
              /\ call[c].op \in PutOps
              /\ call[c].vals[call[c].idx].value = NilVal
              /\ pc'[c] /= "send") =>
                 /\ pc'[c] = "idle"
                 /\ ret'[c].err = ErrInvalidValueToAddToCache
                 /\ UNCHANGED <<chan, storeVars>>]_vars

\* a PutBatch whose second pair has a nil value has been rejected; its first
\* pair has been applied and is in the store
C15_Witness ==
    /\ Returned(1, "PutBatch")
    /\ ret[1].err = ErrInvalidValueToAddToCache
    /\ ret[1].idx = 2
    /\ h.applied[1] = <<KV(2, 1)>>
    /\ 2 \in KeysOf(Store)

\* C16: a Get, GetBatch, Put or PutBatch entered with a context that is
\* already cancelled returns ErrInvalidContext and no result in the step
\* that enters it, with no request sent and the channels and the store
\* unchanged, whether or not the cache has been closed.
C16_CancelledContextRejected ==
    /\ [](\A c \in Callers :
             (/\ pc[c] = "idle"
              /\ ret[c].op \in {"Get", "GetBatch", "Put", "PutBatch"}
              /\ ret[c].ctx = "done") =>
                 /\ ret[c].err = ErrInvalidContext
                 /\ ret[c].out = <<>>
                 /\ h.applied[c] = <<>>
                 /\ Waiting(c) = {})
    /\ [][\A c \in Callers :
             (call'[c].n /= call[c].n /\ ret'[c].ctx = "done") =>
                 /\ pc'[c] = "idle"
                 /\ UNCHANGED <<chan, storeVars>>]_vars

\* a PutBatch entered with a cancelled context after a Close had returned
\* has returned ErrInvalidContext
C16_Witness ==
    /\ Returned(1, "PutBatch")
    /\ ret[1].ctx = "done"
    /\ ret[1].late = "close"
    /\ ret[1].err = ErrInvalidContext
    /\ \A ch \in Chans : closed[ch]

\* a list of partitions has an entry with a nil cache / a repeated name
HasNilCache(caches) == \E i \in 1..Len(caches) : caches[i].cache = "nil"
HasDuplicate(caches) ==
    \E i, j \in 1..Len(caches) : i /= j /\ caches[i].name = caches[j].name

\* C17: a constructor given one invalid parameter (the context live and the
\* others valid) returns the error of that parameter; given any invalid
\* parameter it returns an error, no instance, and starts no actor; given
\* valid parameters it succeeds.
C17_ConstructionErrors ==
    LET a == ctor.args
        r == ctor.res
    IN /\ (r.err /= ErrNil) => (~r.inst /\ ~r.actor /\ apc = "none")
       /\ ctor.fn = "NewBasicCache" =>
              /\ (a[1] = "live" /\ a[2] < 0) => r.err = ErrInvalidMaxEntries
              /\ (a[1] = "live" /\ a[2] >= 0) =>
                     (r.err = ErrNil /\ r.inst /\ apc = "select")
       /\ ctor.fn = "NewLoadingCache" =>
              /\ (a[1] = "live" /\ a[2] = "nil") => r.err = ErrInvalidLoader
              /\ (a[1] = "live" /\ a[2] /= "nil" /\ a[3] < 0) =>
                     r.err = ErrInvalidMaxEntries
              /\ (a[1] = "live" /\ a[2] /= "nil" /\ a[3] >= 0) =>
                     (r.err = ErrNil /\ r.inst /\ apc = "select")
       /\ ctor.fn = "NewPartitionedCache" =>
              /\ a[1] = "nil" => r.err = ErrInvalidPartitioner
              /\ (a[1] /= "nil" /\ Len(a[2]) = 0) =>
                     r.err = ErrInvalidPartitionInfo
              /\ (a[1] /= "nil" /\ HasNilCache(a[2]) /\ ~HasDuplicate(a[2])) =>
                     r.err = ErrPartitionWithNoCache
              /\ (a[1] /= "nil" /\ ~HasNilCache(a[2]) /\ HasDuplicate(a[2])) =>
                     r.err = ErrPartitionInfoHasDuplicates
              /\ (a[1] /= "nil" /\ HasNilCache(a[2]) /\ HasDuplicate(a[2])) =>
                     r.err \in {ErrPartitionWithNoCache,
                                ErrPartitionInfoHasDuplicates}
              /\ (a[1] /= "nil" /\ Len(a[2]) > 0 /\ ~HasNilCache(a[2])
                                /\ ~HasDuplicate(a[2])) =>
                     (r.err = ErrNil /\ r.inst)

\* NewPartitionedCache has refused three partitions, all with a cache, of
\* which the third repeats the name of the first
C17_Witness ==
    /\ ctor.fn = "NewPartitionedCache"
    /\ Len(ctor.args[2]) = 3
    /\ ~HasNilCache(ctor.args[2])
    /\ ctor.args[2][1].name = ctor.args[2][3].name
    /\ ctor.args[2][1].name /= ctor.args[2][2].name
    /\ ctor.res.err = ErrPartitionInfoHasDuplicates
    /\ ~ctor.res.inst

\* the keys the cache did not find for caller c's call, in request order
Missing(c) ==
    LET idx == SelectSeq([i \in 1..Len(h.got[c]) |-> i], LAMBDA i : ~h.got[c][i].ok)
    IN [j \in 1..Len(idx) |-> h.got[c][idx[j]].key]

\* the loader gave a value for the one key it was asked for
LoadedOne(c) ==
    /\ Len(h.loader[c]) = 1
    /\ h.loader[c][1].out.err = ErrNil
    /\ Len(h.loader[c][1].out.resp) = 1
    /\ h.loader[c][1].out.resp[1].err = ErrNil
    /\ h.loader[c][1].out.resp[1].value /= NilVal

\* C18: a Get(k) on a LoadingCache whose cache does not hold k invokes the
\* loader exactly once, with exactly [k], and when the loader gives a value
\* returns that value with found = true and no error; once the value has
\* been stored by the goroutine started for it (and the key has stayed in
\* the cache), a Get(k) returns the stored value with found = true without
\* invoking the loader, and a Len() made after the only stored key was
\* stored, no Remove having been issued, returns 1.
C18_GetLoadsOnceThenHits ==
    \A c \in Callers :
        /\ (Returned(c, "Loading.Get") /\ h.got[c] /= <<>> /\ ~h.got[c][1].ok) =>
              /\ Len(h.loader[c]) = 1
              /\ h.loader[c][1].keys = h.req[c]
              /\ LoadedOne(c) =>
                    /\ ret[c].err = ErrNil
                    /\ ret[c].out = <<[key |-> h.req[c][1],
                                       value |-> h.loader[c][1].out.resp[1].value,
                                       ok |-> TRUE, err |-> ErrNil]>>
        /\ (Returned(c, "Loading.Get") /\ h.exp[c] /= NilVal) =>
              /\ ret[c].err = ErrNil
              /\ ret[c].out = <<[key |-> h.req[c][1], value |-> h.exp[c],
                                 ok |-> TRUE, err |-> ErrNil]>>
              /\ h.loader[c] = <<>>
        /\ (Returned(c, "Len") /\ ret[c].solo /\ ~h.removed /\ Len(h.puts) = 1) =>
              /\ ret[c].err = ErrNil
              /\ ret[c].out = <<1>>

\* C18 witness: the loader's value for key 1 has been stored by the goroutine
\* started for it, and a later Get(1) has returned it without the loader
C18_Witness ==
    /\ wb = <<KV(1, LoadedVal)>>
    /\ call[Writer].n = 1
    /\ pc[Writer] = "idle"
    /\ Returned(1, "Loading.Get")
    /\ call[1].n > 1
    /\ h.exp[1] = LoadedVal
    /\ h.loader[1] = <<>>
    /\ ret[1].out[1].ok
    /\ ret[1].out[1].value = LoadedVal

\* C19: a LoadingCache.GetBatch never invokes the loader more than once; a
\* call the cache has answered has, when it returns, invoked the loader
\* exactly once with exactly the keys the cache did not find, in request
\* order, when there is such a key, and not at all when every key was found.
C19_LoaderOncePerCall ==
    \A c \in Callers :
        /\ Len(h.loader[c]) <= 1
        /\ (Returned(c, "Loading.GetBatch") /\ h.got[c] /= <<>>) =>
              IF Missing(c) = <<>>
              THEN h.loader[c] = <<>>
              ELSE /\ Len(h.loader[c]) = 1
                   /\ h.loader[c][1].keys = Missing(c)

\* C19 witness: a GetBatch of two keys, the first found in the cache and the
\* second not, has returned after the loader was given the second key only
C19_Witness ==
    /\ Returned(1, "Loading.GetBatch")
    /\ h.req[1] = <<1, 2>>
    /\ h.got[1][1].ok
    /\ ~h.got[1][2].ok
    /\ Len(h.loader[1]) = 1
    /\ h.loader[1][1].keys = <<2>>

\* the loader's result for key k in caller c's call
LoadedFor(c, k) ==
    LET resp == h.loader[c][1].out.resp
    IN resp[CHOOSE i \in 1..Len(resp) : resp[i].key = k]

\* C20: a LoadingCache.GetBatch that returns no error returns one result per
\* requested key, in request order, duplicates included; and every result
\* whose key the cache did not find has OK = false and the loader's error
\* if the loader gave an error for the key, OK = true and the loaded value
\* if the loader gave a value, which is then also handed over to be
\* stored, and OK = false if the loader gave nil without an error.
C20_MergedByKey ==
    \A c \in Callers :
        (Returned(c, "Loading.GetBatch") /\ ret[c].err = ErrNil) =>
            /\ Len(ret[c].out) = Len(h.req[c])
            /\ \A i \in 1..Len(ret[c].out) :
                  /\ ret[c].out[i].key = h.req[c][i]
                  /\ ~h.got[c][i].ok =>
                        LET lr == LoadedFor(c, h.req[c][i])
                            cr == ret[c].out[i]
                        IN IF lr.err /= ErrNil
                           THEN ~cr.ok /\ cr.err = lr.err
                           ELSE IF lr.value /= NilVal
                           THEN /\ cr.ok
                                /\ cr.value = lr.value
                                /\ KV(lr.key, lr.value) \in Range(wb)
                           ELSE ~cr.ok

\* the loader gave caller c's call a list of another length than the list
\* of keys it was given, and no error
ShortLoad(hh, c) ==
    /\ Len(hh.loader[c]) = 1
    /\ hh.loader[c][1].out.err = ErrNil
    /\ Len(hh.loader[c][1].out.resp) /= Len(hh.loader[c][1].keys)

\* C21: when the loader gives a number of results other than the number of
\* keys it was given, the LoadingCache call returns ErrUnknown with no
\* result, and the step that invokes the loader hands nothing over to be
\* written back.
C21_WrongCountIsUnknown ==
    [][\A c \in Callers :
          (pc[c] = "load" /\ pc'[c] = "idle" /\ ShortLoad(h', c)) =>
              /\ ret'[c].err = ErrUnknown
              /\ ret'[c].out = <<>>
              /\ wb' = wb]_vars

\* C21 witness: the loader was given two keys and gave one value; the call
\* has returned ErrUnknown and nothing is to be written back
C21_Witness ==
    /\ Returned(1, "Loading.GetBatch")
    /\ ShortLoad(h, 1)
    /\ Len(h.loader[1][1].keys) = 2
    /\ h.loader[1][1].out.resp[1].value = LoadedVal
    /\ ret[1].err = ErrUnknown
    /\ wb = <<>>

\* the loader panicked in caller c's call
PanickedLoad(hh, c) == Len(hh.loader[c]) = 1 /\ hh.loader[c][1].panic

\* C22: when the loader panics, the LoadingCache call returns the error
\* "unexpected error" with no result, and the step leaves the store, the
\* pairs to be written back, the channels and the actor as they were; in
\* SpecLoad, where nothing times out and nothing is closed, the cache stays
\* usable: the actor keeps running and no call returns
\* ErrAttemptToUseInvalidCache.
C22_LoaderPanicIsError ==
    /\ [](/\ Running
          /\ apc /= "done"
          /\ \A ch \in Chans : ~closed[ch]
          /\ \A c \in Procs : ret[c].err /= ErrAttemptToUseInvalidCache)
    /\ [][\A c \in Callers :
             (pc[c] = "load" /\ pc'[c] = "idle" /\ PanickedLoad(h', c)) =>
                 /\ ret'[c].err = ErrUnexpected
                 /\ ret'[c].out = <<>>
                 /\ UNCHANGED <<wb, storeVars, chan, closed, apc, cur>>]_vars

\* C22 witness: after a GetBatch in which the loader panicked has returned
\* the error, a later Get of the same caller has loaded a value and
\* returned it
C22_Witness ==
    /\ Returned(1, "Loading.Get")
    /\ call[1].n > 1
    /\ LoadedOne(1)
    /\ ret[1].err = ErrNil
    /\ ret[1].out[1].ok
    /\ h.panicked

\* C23: the write-back of loaded values is detached from the call that
\* loaded them: what a Get returns when the loader gave a value is that
\* value, found, with no error, whatever becomes of the write-back; and
\* while the only calls that have failed are write-back Puts (timed out, or
\* made on a closed cache) the actor goroutine does not panic and the
\* program keeps running, so no caller is affected.
C23_WriteBackDetached ==
    /\ \A c \in Callers :
          (Returned(c, "Loading.Get") /\ LoadedOne(c)) =>
              /\ ret[c].err = ErrNil
              /\ ret[c].out[1].ok
              /\ ret[c].out[1].value = h.loader[c][1].out.resp[1].value
    /\ (\A c \in Callers : ret[c].err \notin {ErrTimeout, ErrInvalidContext}) =>
          ~panicking /\ Running

\* how often k occurs in the sequence s
Count(s, k) == Cardinality({i \in 1..Len(s) : s[i] = k})

\* the keys of a list of results
ResultKeys(out) == [i \in 1..Len(out) |-> out[i].key]

\* the keys of the sequence ks that the partitioner maps to partition d
KeysOfPart(ks, d) ==
    LET idx == SelectSeq([i \in 1..Len(ks) |-> i], LAMBDA i : partitioner(ks[i]).part = d)
    IN [j \in 1..Len(idx) |-> ks[idx[j]]]

\* the goroutines started for call n of caller c
StartedFor(c, n) ==
    {i \in 1..Len(processes) : processes[i].owner = c /\ processes[i].n = n}

\* C24: the goroutines one PartitionedCache.GetBatch starts are for different
\* caches, so that each cache's GetBatch is called at most once by the call,
\* and each is given exactly the requested keys of its partition, in request
\* order; a GetBatch that returns no error returns as many results as keys
\* were requested, every key as often as it was requested.
C24_OneCallPerDelegate ==
    /\ \A i, j \in 1..Len(processes) :
          (/\ i /= j
           /\ processes[i].owner = processes[j].owner
           /\ processes[i].n = processes[j].n) => processes[i].c /= processes[j].c
    /\ \A c \in Callers :
          /\ pc[c] = "collect" =>
                \A i \in StartedFor(c, call[c].n) :
                    processes[i].keys = KeysOfPart(h.req[c], processes[i].c)
          /\ (Returned(c, "Partitioned.GetBatch") /\ ret[c].err = ErrNil) =>
                /\ Len(ret[c].out) = Len(h.req[c])
                /\ \A k \in Range(h.req[c]) \cup Range(ResultKeys(ret[c].out)) :
                      Count(ResultKeys(ret[c].out), k) = Count(h.req[c], k)
                /\ \A i \in StartedFor(c, call[c].n) :
                      processes[i].keys = KeysOfPart(h.req[c], processes[i].c)

\* C24 witness: a GetBatch of three keys, the first and the third of one
\* partition, has returned three results after two goroutines were started
C24_Witness ==
    /\ Returned(1, "Partitioned.GetBatch")
    /\ ret[1].err = ErrNil
    /\ h.req[1] = <<1, 2, 3>>
    /\ Cardinality(StartedFor(1, call[1].n)) = NumParts
    /\ Len(ret[1].out) = Len(h.req[1])
    /\ \E i \in StartedFor(1, call[1].n) : Len(processes[i].keys) > 1

\* C25: a PartitionedCache.GetBatch returns, and closes the result channels
\* of its goroutines, only when every goroutine it started has delivered
\* its result, so that no goroutine sends on a closed channel; and when a
\* cache's GetBatch gave an error the call returns an error and no result.
C25_WaitsForAllDelegates ==
    /\ \A i \in 1..Len(processes) :
          /\ processes[i].closed => processes[i].st = "sent"
          /\ processes[i].st /= "panicked"
    /\ \A c \in Callers :
          (Returned(c, "Partitioned.GetBatch") /\ ret[c].ctx /= "done") =>
              /\ \A i \in StartedFor(c, call[c].n) : processes[i].st = "sent"
              /\ (\E i \in StartedFor(c, call[c].n) : processes[i].err /= ErrNil) =>
                    /\ ret[c].err /= ErrNil
                    /\ ret[c].out = <<>>

\* the error the resolution of key k must give with the table tbl, ErrNil
\* when it must succeed
ResolutionError(tbl, k) ==
    IF tbl = {} THEN ErrAttemptToUseInvalidCache
    ELSE IF partitioner(k).err /= ErrNil THEN partitioner(k).err
    ELSE IF partitioner(k).part \notin tbl THEN ErrInvalidPartition
    ELSE ErrNil

\* the first key of ks that does not resolve, NoKey when every key resolves
FirstUnresolved(tbl, ks) ==
    IF \E i \in 1..Len(ks) : ResolutionError(tbl, ks[i]) /= ErrNil
    THEN ks[CHOOSE i \in 1..Len(ks) :
                /\ ResolutionError(tbl, ks[i]) /= ErrNil
                /\ \A j \in 1..(i - 1) : ResolutionError(tbl, ks[j]) = ErrNil]
    ELSE NoKey

\* C26: a Get, GetBatch, Put or Remove of a PartitionedCache with a key that
\* does not resolve returns, in the step that resolves it, the error of the
\* first such key (the partitioner's error unchanged, ErrInvalidPartition
\* for a partition not in the table, ErrAttemptToUseInvalidCache for an
\* empty table) and no result, starts no goroutine and leaves every cache
\* of every partition as it was.
C26_ResolveBeforeDelegate ==
    [][\A c \in Callers :
          LET ks == h'.req[c]
              bad == FirstUnresolved(partitions, ks)
          IN (/\ pc[c] = "idle"
              /\ call'[c].n = call[c].n + 1
              /\ ret'[c].ctx /= "done"
              /\ (\/ ret'[c].op \in {"Partitioned.Get", "Partitioned.GetBatch",
                                    "Partitioned.Put", "Partitioned.Remove"}
                  \/ pc'[c] = "collect")
              /\ bad /= NoKey) =>
                 /\ pc'[c] = "idle"
                 /\ ret'[c].err = ResolutionError(partitions, bad)
                 /\ ret'[c].out = <<>>
                 /\ UNCHANGED <<delegates, processes>>]_vars

\* C26 witness: a GetBatch whose second key is of a partition that is not in
\* the table has returned ErrInvalidPartition and started no goroutine
C26_Witness ==
    /\ Returned(1, "Partitioned.GetBatch")
    /\ h.req[1] = <<1, UnknownKey>>
    /\ ret[1].err = ErrInvalidPartition
    /\ StartedFor(1, call[1].n) = {}
    /\ partitions = Parts

\* the sum of the lengths of the caches of the partitions in S
RECURSIVE SumLen(_)
SumLen(S) ==
    IF S = {} THEN 0
    ELSE LET d == CHOOSE x \in S : TRUE
         IN cacheLen(delegates[d].st) + SumLen(S \ {d})

\* the keys stored through the PartitionedCache
StoredKeys == {k \in Keys : k \in DOMAIN delegates[partitioner(k).part].st.cache}

\* C27: a Len of a PartitionedCache that has not been closed returns an
\* error and 0 when the cache of a partition had ended before the Len
\* began, and 0 with every error; a Len that returns no error while no
\* other call was made and every cache is alive returns the sum of the
\* lengths of the caches of all partitions, which is the number of keys
\* stored through the PartitionedCache.
C27_LenIsSum ==
    \A c \in Callers :
        (Returned(c, "Partitioned.Len") /\ ret[c].late /= "close" /\ partitions = Parts) =>
            /\ h.dead[c] /= {} => ret[c].err /= ErrNil
            /\ ret[c].err /= ErrNil => ret[c].out = <<0>>
            /\ (/\ ret[c].err = ErrNil
                /\ ret[c].solo
                /\ \A d \in Parts : ~delegates[d].closed) =>
                   /\ ret[c].out = <<SumLen(Parts)>>
                   /\ ret[c].out = <<Cardinality(StoredKeys)>>

\* C27 witness: with one key stored in each of two partitions, a Len made
\* while no other call is in progress has returned 2
C27_Witness ==
    /\ Returned(1, "Partitioned.Len")
    /\ ret[1].solo
    /\ ret[1].err = ErrNil
    /\ \A d \in Parts : ~delegates[d].closed
    /\ StoredKeys = {1, 2}
    /\ ret[1].out = <<Cardinality({1, 2})>>

\* the calls of a PartitionedCache that report an error
PartitionedCalls ==
    {"Partitioned.Get", "Partitioned.GetBatch", "Partitioned.Put",
     "Partitioned.Remove", "Partitioned.Len"}

\* C28: once a Close of the PartitionedCache has returned, the cache of
\* every partition is closed and the table of partitions is empty, and
\* every Get, GetBatch, Put, Remove and Len that began after that Close,
\* with a context that is not done, returns ErrAttemptToUseInvalidCache.
C28_ClosedRouterUnusable ==
    /\ h.pclosed =>
          /\ partitions = {}
          /\ \A d \in Parts : delegates[d].closed /\ cacheLen(delegates[d].st) = 0
    /\ \A c \in Callers :
          (/\ pc[c] = "idle"
           /\ ret[c].op \in PartitionedCalls
           /\ ret[c].ctx /= "done"
           /\ ret[c].late = "close") => ret[c].err = ErrAttemptToUseInvalidCache

\* C28, all but Len: the same with Len left out
C28_ClosedRouterButLen ==
    /\ h.pclosed =>
          /\ partitions = {}
          /\ \A d \in Parts : delegates[d].closed /\ cacheLen(delegates[d].st) = 0
    /\ \A c \in Callers :
          (/\ pc[c] = "idle"
           /\ ret[c].op \in PartitionedCalls \ {"Partitioned.Len"}
           /\ ret[c].ctx /= "done"
           /\ ret[c].late = "close") => ret[c].err = ErrAttemptToUseInvalidCache

\* the keys held by the cache of partition d
HeldBy(d) == DOMAIN delegates[d].st.cache

\* the step is a Put or a Remove of a key of partition d made by a caller
WriteStepOn(d) ==
    \E c \in Callers :
        /\ call'[c].n = call[c].n + 1
        /\ ret'[c].op \in {"Partitioned.Put", "Partitioned.Remove"}
        /\ Len(h'.req[c]) = 1
        /\ partitioner(h'.req[c][1]) = [part |-> d, err |-> ErrNil]

\* the step is the call of the cache of partition d made for a Get or a
\* GetBatch, with requested keys of partition d only
ReadStepOn(d) ==
    \E i \in 1..Len(processes) :
        /\ processes[i].st = "new"
        /\ processes'[i].st = "got"
        /\ processes[i].c = d
        /\ processes[i].keys /= <<>>
        /\ \A j \in 1..Len(processes[i].keys) :
              /\ partitioner(processes[i].keys[j]) = [part |-> d, err |-> ErrNil]
              /\ processes[i].keys[j] \in Range(h.req[processes[i].owner])

\* C29: a step changes the cache of a partition (its contents, its recency
\* order, its length) only when it is a Put or a Remove of a key that the
\* partitioner gives to that partition, the read of such keys for a Get or
\* GetBatch, or a Close; so a Put never takes a key out of the cache of
\* another partition, and every cache holds keys of its own partition only.
C29_OnlyOwnPartition ==
    /\ [](\A d \in Parts : \A k \in HeldBy(d) : partitioner(k).part = d)
    /\ [][\A d \in Parts :
            /\ delegates'[d] /= delegates[d] =>
                  \/ WriteStepOn(d)
                  \/ ReadStepOn(d)
                  \/ ~h.pclosed /\ h'.pclosed
            /\ WriteStepOn(d) =>
                  \A e \in Parts \ {d} : delegates'[e] = delegates[e]]_vars

\* C29 witness: with room for one entry in every cache, after three Puts
\* of which the last was of key 3, key 3 is the only key of partition 1,
\* where key 1 is no more, and key 2 is still held in partition 2
C29_Witness ==
    /\ maxEntries = 1
    /\ partitions = Parts
    /\ Returned(1, "Partitioned.Put") /\ h.req[1] = <<3>> /\ call[1].n = 2
    /\ Returned(2, "Partitioned.Put") /\ h.req[2] = <<2>>
    /\ HeldBy(partitioner(3).part) = {3}
    /\ HeldBy(partitioner(2).part) = {2}
    /\ partitioner(1).part = partitioner(3).part
    /\ partitioner(2).part /= partitioner(3).part

\* the GetBatch of the three caches
BatchOps == {"GetBatch", "Loading.GetBatch", "Partitioned.GetBatch"}

\* C30: a GetBatch of a BasicCache, of a LoadingCache or of a
\* PartitionedCache that returns an error returns no result with it, and
\* one that returns no error returns one result for every requested key;
\* a result carries an error of its own only when a LoadingCache
\* returned it.
C30_NoPartialResult ==
    \A c \in Callers : \A op \in BatchOps :
        Returned(c, op) =>
            /\ ret[c].err /= ErrNil => ret[c].out = <<>>
            /\ ret[c].err = ErrNil => Len(ret[c].out) = Len(h.req[c])
            /\ op /= "Loading.GetBatch" =>
                  \A i \in 1..Len(ret[c].out) :
                      \/ "err" \notin DOMAIN ret[c].out[i]
                      \/ ret[c].out[i].err = ErrNil

\* C30 witness: a GetBatch of the LoadingCache has returned ErrUnknown and
\* no result after the cache had answered and the loader had given too few
\* values, and a GetBatch of the PartitionedCache has returned the error of
\* one cache and no result although another cache had given its results
C30_Witness ==
    /\ Returned(1, "Loading.GetBatch")
    /\ ret[1].err = ErrUnknown
    /\ ret[1].out = <<>>
    /\ h.got[1] /= <<>>
    /\ h.loader[1] /= <<>>
    /\ Returned(2, "Partitioned.GetBatch")
    /\ ret[2].err = ErrAttemptToUseInvalidCache
    /\ ret[2].out = <<>>
    /\ \E i \in 1..Len(processes) :
          processes[i].owner = 2 /\ processes[i].result /= <<>>

\* C30 witness of full results: both have returned a result for every key
C30_FullResults ==
    /\ Returned(1, "Loading.GetBatch") /\ ret[1].err = ErrNil
    /\ Len(ret[1].out) = MaxBatchLen
    /\ Returned(2, "Partitioned.GetBatch") /\ ret[2].err = ErrNil
    /\ Len(ret[2].out) = NumKeys

\* C31: the ticks a PutBatch has spent in its selects waiting for the actor,
\* all its pairs taken together, are never more than the timeout d.
C31_OneBudgetForAllPairs ==
    \A c \in Callers :
        (call[c].op = "PutBatch" \/ Returned(c, "PutBatch")) =>
            h.waited[c] <= TimeoutD

\* C31, pair by pair: the timer of a select has never run for more than d,
\* a call returns ErrTimeout only with d ticks spent in its last select, and
\* a PutBatch has never waited for more than d for each of its pairs
C31_BudgetForEachPair ==
    \A c \in Callers :
        /\ call[c].t <= TimeoutD
        /\ (call[c].op = "PutBatch" \/ Returned(c, "PutBatch")) =>
              h.waited[c] <= TimeoutD * MaxBatchLen
        /\ (pc[c] = "idle" /\ ret[c].err = ErrTimeout) => h.waited[c] >= TimeoutD

\* the step takes the first request of one request channel, and of no
\* other, and the actor goes on to reply to it
TakesOne ==
    \E ch \in Chans :
        /\ chan[ch] /= <<>>
        /\ chan' = [chan EXCEPT ![ch] = Tail(@)]
        /\ apc' = "reply"
        /\ cur'.c = Head(chan[ch]).c
        /\ cur'.n = Head(chan[ch]).n

\* C32: the store changes only in a step of the actor: the one in which it
\* takes a request from a request channel while it is in its select,
\* having no request in hand, or the clear of its way out; a request is
\* taken only then, one at a time, and is in hand until its reply has
\* been received; no step of a caller (entering a call, sending, receiving,
\* returning) changes the store.
C32_ActorOwnsStore ==
    /\ [](apc = "select" => cur = NoCur)
    /\ [](apc = "reply" => cur /= NoCur)
    /\ [][/\ storeVars' /= storeVars =>
                \/ apc = "select" /\ cur = NoCur /\ TakesOne
                \/ apc = "clear"
          /\ (\E ch \in Chans : Len(chan'[ch]) < Len(chan[ch])) =>
                apc = "select" /\ cur = NoCur /\ TakesOne
          /\ (pc' /= pc \/ call' /= call \/ ret' /= ret) => storeVars' = storeVars
          /\ (apc = "reply" /\ apc' = "reply") => cur' = cur /\ storeVars' = storeVars]_vars

\* C32 witness: the actor has applied the Put of the first caller and has
\* its reply in hand while the request of the second caller is queued
C32_Witness ==
    /\ apc = "reply"
    /\ cur.c = 1
    /\ call[1].op = "Put"
    /\ cacheLen(Store) > 0
    /\ pc[2] = "wait"
    /\ \E ch \in Chans : chan[ch] /= <<>> /\ Head(chan[ch]).c = 2

\* C33: the map and the list of the store always agree: the keys of the map
\* are the keys of the list entries, no key is twice in the list, the
\* element the map gives for a key is the one that carries that key, and
\* the length of the store is the size of either; a Len that has returned
\* last has returned that size.
C33_MapAndListAgree ==
    /\ DOMAIN cache = KeysOf(Store)
    /\ \A i, j \in 1..Len(ll) : ll[i].key = ll[j].key => i = j
    /\ \A k \in DOMAIN cache :
          /\ cache[k] = k
          /\ IndexOf(ll, cache[k]) /= 0
          /\ ll[IndexOf(ll, cache[k])].key = k
    /\ cacheLen(Store) = Len(ll)
    /\ cacheLen(Store) = Cardinality(DOMAIN cache)
    /\ Returned(1, "Len") =>
          ret[1].out = <<Len(ll)>> /\ ret[1].out = <<Cardinality(DOMAIN cache)>>

\* C33 witness: a store that holds one key after two keys were put and one
\* of them was removed, with the Len that followed
C33_Witness ==
    /\ maxEntries = MaxEntries
    /\ Len(h.puts) = 2
    /\ h.removed
    /\ Returned(1, "Len")
    /\ ret[1].out = <<1>>
    /\ Cardinality(DOMAIN cache) = 1
    /\ Len(ll) = 1

\* the step is the actor applying the Put at the head of the put channel
PutStep ==
    /\ apc = "select"
    /\ chan["put"] /= <<>>
    /\ chan'["put"] = Tail(chan["put"])
    /\ apc' = "reply"

\* the list s without its entry for key k
WithoutKey(s, k) == SelectSeq(s, LAMBDA e : e.key /= k)

\* C34: a Put of a key that is stored leaves the length and the stored keys
\* as they were, whatever the capacity, evicts nothing, and makes the key
\* the most recently used one with the value put, the other entries keeping
\* their order; when the calls made so far have put one key only, the
\* length is 1, the value stored is that of the last Put, a Len returns 1
\* and a Get that value.
C34_PutOfStoredKey ==
    /\ [][(PutStep /\ Head(chan["put"]).keys[1] \in DOMAIN cache) =>
             /\ Len(ll') = Len(ll)
             /\ DOMAIN cache' = DOMAIN cache
             /\ h'.evict = NoEvict
             /\ ll'[1] = KV(Head(chan["put"]).keys[1], Head(chan["put"]).v)
             /\ Tail(ll') = WithoutKey(ll, Head(chan["put"]).keys[1])]_vars
    /\ []((pc[1] = "idle" /\ Len(h.puts) = 1 /\ ~h.removed) =>
             /\ cacheLen(Store) = 1
             /\ ll[1] = KV(h.puts[1], h.lastMut[h.puts[1]])
             /\ Returned(1, "Len") => ret[1].out = <<1>>
             /\ (Returned(1, "Get") /\ ret[1].out[1].key = h.puts[1]) =>
                   /\ ret[1].out[1].ok
                   /\ ret[1].out[1].value = h.lastMut[h.puts[1]])

\* C34 witness: in a store that is full with two keys, the third Put, of
\* the key put first, has made that key the most recently used one, and
\* nothing was evicted
C34_Witness ==
    /\ maxEntries = 2
    /\ Returned(1, "Put")
    /\ call[1].n = 3
    /\ Len(h.puts) = 2
    /\ ~h.removed
    /\ h.evict = NoEvict
    /\ Len(ll) = maxEntries
    /\ ll[1].key = h.puts[1]

\* C34 witness of one key: two Puts of one key with different values, the
\* Len that followed has returned 1 and the Get the value put last
C34_OneKey ==
    /\ maxEntries = 1
    /\ h.puts = <<1>>
    /\ ~h.removed
    /\ call[1].n = MaxSeqCalls
    /\ Returned(1, "Get")
    /\ ret[1].out[1].value = NumVals
    /\ Len(ll) = 1

\* caller c's last call was a Put or PutBatch that was given up, while at
\* pair ret[c].idx, with its timeout or its context
Aborted(c) ==
    /\ pc[c] = "idle"
    /\ ret[c].op \in PutOps
    /\ ret[c].err \in {ErrTimeout, ErrInvalidContext}
    /\ ret[c].idx >= 1

\* C35: the pair at which a Put or PutBatch returned ErrTimeout or
\* ErrInvalidContext has not been applied to the store, neither when the
\* call returned nor at any time after.
C35_AbortedPairNotApplied ==
    \A c \in Callers : Aborted(c) => Len(h.applied[c]) = ret[c].idx - 1

\* C35, what follows: once the pair of a call that was given up has been
\* applied, the actor is replying to it or on its way out, and serves no
\* request any more
C35_AppliedThenNoService ==
    \A c \in Callers :
        (Aborted(c) /\ Len(h.applied[c]) = ret[c].idx) => apc /= "select"

\* caller c's request of its present call is in a request channel
Queued(c) ==
    \E ch \in Chans : \E i \in 1..Len(chan[ch]) :
        chan[ch][i].c = c /\ chan[ch][i].n = call[c].n

\* C36: a call that waits for the answer to its request leaves its select
\* in one of two ways only, also when the cache is being closed or has been
\* closed, or its governing context is cancelled: it receives the reply the
\* actor made by serving the request, or it returns ErrTimeout or
\* ErrInvalidContext; the actor replies only to a request it has served,
\* and once it is on its way out the requests in the channels stay there.
C36_QueuedServedOrAbandoned ==
    /\ [](apc \notin {"select", "reply"} => cur = NoCur)
    /\ [][/\ \A c \in Callers :
                (pc[c] = "wait" /\ pc'[c] /= "wait") =>
                    \/ /\ apc = "reply"
                       /\ cur.c = c
                       /\ cur.n = call[c].n
                       /\ ~Queued(c)
                       /\ pc'[c] = "idle" => /\ ret'[c].err = ErrNil
                                             /\ ret'[c].out = Unwrap(call[c].op, cur.resp).out
                    \/ /\ pc'[c] = "idle"
                       /\ ret'[c].err \in {ErrTimeout, ErrInvalidContext}
          /\ apc \notin {"select", "reply"} => chan' = chan \/ \E c \in Callers : pc[c] = "send"
          /\ (apc /= "reply" /\ apc' = "reply") => apc = "select" /\ TakesOne]_vars

\* C36 witness: the second caller has closed the cache and the actor has
\* ended while the Get of the first caller was queued; the request is
\* still in its channel and the Get has returned ErrTimeout
C36_Witness ==
    /\ Returned(2, "Close")
    /\ apc = "done"
    /\ Returned(1, "Get")
    /\ ret[1].err = ErrTimeout
    /\ Queued(1)

\* C36 witness of service: the Get queued while the cache was being closed
\* has been answered by the actor
C36_Served ==
    /\ Returned(2, "Close")
    /\ Returned(1, "Get")
    /\ ret[1].err = ErrNil
    /\ ret[1].late = "no"
    /\ ret[2].late = "no"
    /\ ~ret[1].solo

\* the last call of the caller was a Put or a Remove of a key, and what it
\* asked for is what the store holds
OwnMutationStands ==
    /\ (Returned(1, "Put") /\ ret[1].err = ErrNil) =>
          /\ h.applied[1][1].key \in DOMAIN cache
          /\ StoredValue(h.applied[1][1].key) = h.applied[1][1].value
    /\ (Returned(1, "Remove") /\ ret[1].err = ErrNil) =>
          h.req[1][1] \notin DOMAIN cache

\* C37: after a Put of the caller has returned the store holds the value
\* put for the key, and after a Remove of the caller has returned the
\* store does not hold the key, until the caller's next call, whatever was
\* loaded for the key before.
C37_WriteBackKeepsLaterMutation == OwnMutationStands

\* C37, as long as nothing was loaded: the same while no GetBatch has
\* started a goroutine to store a loaded value
C37_NothingLoaded == (wb = <<>>) => OwnMutationStands

\* the partitions of the keys ks, each once, in the order in which they
\* first occur
RECURSIVE FirstParts(_, _)
FirstParts(ks, acc) ==
    IF ks = <<>> THEN acc
    ELSE FirstParts(Tail(ks),
                    IF \E i \in 1..Len(acc) : acc[i] = partitioner(Head(ks)).part
                    THEN acc
                    ELSE Append(acc, partitioner(Head(ks)).part))

\* the keys of one partition after the other
RECURSIVE ConcatParts(_, _)
ConcatParts(ks, parts) ==
    IF parts = <<>> THEN <<>>
    ELSE KeysOfPart(ks, Head(parts)) \o ConcatParts(ks, Tail(parts))

\* the keys ks grouped by partition
Grouped(ks) == ConcatParts(ks, FirstParts(ks, <<>>))

\* C38: the results of a PartitionedCache.GetBatch that returns no error are
\* those for the requested keys grouped by partition, the partitions in the
\* order in which they first occur among the keys and the keys of one
\* partition in the order of the request; so the results are in the order
\* of the request exactly when the request is grouped by partition.
C38_ResultsGroupedByDelegate ==
    \A c \in Callers :
        (Returned(c, "Partitioned.GetBatch") /\ ret[c].err = ErrNil) =>
            /\ ResultKeys(ret[c].out) = Grouped(h.req[c])
            /\ (ResultKeys(ret[c].out) = h.req[c]) <=> (Grouped(h.req[c]) = h.req[c])

\* C38 witness: the keys 1, 2, 3, of which 1 and 3 are of one partition,
\* were requested and the results are those of 1, 3, 2
C38_Witness ==
    /\ Returned(1, "Partitioned.GetBatch")
    /\ ret[1].err = ErrNil
    /\ h.req[1] = <<1, 2, 3>>
    /\ ResultKeys(ret[1].out) = <<1, 3, 2>>

\* C38 witness of a grouped request: the keys 2, 1 were requested and the
\* results are in that order, the second partition first
C38_GroupedRequest ==
    /\ Returned(1, "Partitioned.GetBatch")
    /\ ret[1].err = ErrNil
    /\ h.req[1] = <<2, 1>>
    /\ ResultKeys(ret[1].out) = h.req[1]

\* the step is the actor taking the request at the head of channel ch
ServesHead(ch) ==
    /\ apc = "select"
    /\ chan[ch] /= <<>>
    /\ chan'[ch] = Tail(chan[ch])
    /\ apc' = "reply"

\* the list s without its entries for the keys of the sequence ks
WithoutKeys(s, ks) == SelectSeq(s, LAMBDA e : e.key \notin Range(ks))

\* C39: the store is left as it was, contents, order and length, by a
\* Remove of a key that is not stored, by a Len, and by a Get or GetBatch
\* whose keys are not stored; a Get or GetBatch stores no key, takes none
\* out, answers found = false with a nil value for every key that is not
\* stored, and leaves the other entries in their order; the Remove returns
\* nil.
C39_NothingToChange ==
    /\ [](Returned(1, "Remove") => ret[1].err = ErrNil)
    /\ [][/\ (ServesHead("rm") /\ Head(chan["rm"]).keys[1] \notin DOMAIN cache) =>
                storeVars' = storeVars
          /\ ServesHead("len") => storeVars' = storeVars
          /\ ServesHead("get") =>
                LET ks == Head(chan["get"]).keys
                IN /\ DOMAIN cache' = DOMAIN cache
                   /\ Len(ll') = Len(ll)
                   /\ WithoutKeys(ll', ks) = WithoutKeys(ll, ks)
                   /\ Range(ks) \cap DOMAIN cache = {} => storeVars' = storeVars
                   /\ Len(cur'.resp) = Len(ks)
                   /\ \A i \in 1..Len(ks) :
                         ks[i] \notin DOMAIN cache =>
                             cur'.resp[i] = [key |-> ks[i], value |-> NilVal, ok |-> FALSE]]_vars

\* C39 witness: with two keys stored, the Remove of a key that was never
\* put has returned nil
C39_Witness ==
    /\ Returned(1, "Remove")
    /\ ret[1].err = ErrNil
    /\ h.req[1] = <<NumKeys>>
    /\ NumKeys \notin Range(h.puts)
    /\ Len(ll) = 2
    /\ DOMAIN cache = {1, 2}

\* C39 witness of a Get: with a key stored, the Get of another key has
\* returned found = false and a nil value
C39_AbsentGet ==
    /\ Returned(1, "Get")
    /\ ret[1].out = <<[key |-> 2, value |-> NilVal, ok |-> FALSE]>>
    /\ DOMAIN cache = {1}

\* the errors with which the GetBatch of the wrapped cache fails
WrappedErrors == {ErrTimeout, ErrInvalidContext, ErrAttemptToUseInvalidCache}

\* C40: a LoadingCache.GetBatch whose call of the wrapped cache fails
\* returns, in that step, the error of the wrapped cache and no result,
\* and starts no goroutine to store anything; it has not called the
\* loader, which is called only once the actor's reply has been received.
C40_WrappedFailureIsReturned ==
    /\ [](\A c \in Callers :
             (Returned(c, "Loading.GetBatch") /\ ret[c].err \in WrappedErrors) =>
                 ret[c].out = <<>> /\ h.loader[c] = <<>>)
    /\ [][\A c \in Callers :
             /\ (call[c].op = "Loading.GetBatch" /\ pc[c] \in {"send", "wait"}
                                               /\ pc'[c] = "idle") =>
                   /\ ret'[c].err \in WrappedErrors
                   /\ ret'[c].out = <<>>
                   /\ h'.loader[c] = <<>>
                   /\ wb' = wb
             /\ (call[c].op = "Loading.GetBatch" /\ pc[c] /= "load"
                                               /\ pc'[c] = "load") =>
                   /\ pc[c] = "wait"
                   /\ apc = "reply"
                   /\ cur.c = c
                   /\ cur.n = call[c].n
             /\ h'.loader[c] /= h.loader[c] =>
                   pc[c] = "load" \/ h'.loader[c] = <<>>]_vars

\* C40 witness: the GetBatch has timed out after the actor had served its
\* request; it has returned ErrTimeout and no result, the loader was not
\* called and nothing is to be stored
C40_Witness ==
    /\ Returned(1, "Loading.GetBatch")
    /\ ret[1].err = ErrTimeout
    /\ ret[1].out = <<>>
    /\ h.got[1] /= <<>>
    /\ h.loader[1] = <<>>
    /\ wb = <<>>

\* C40 witness of a closed cache: the last GetBatch found the cache closed
C40_ClosedOrCancelled ==
    /\ Returned(1, "Loading.GetBatch")
    /\ call[1].n = MaxCalls
    /\ ret[1].err = ErrAttemptToUseInvalidCache
    /\ ret[1].out = <<>>
    /\ h.loader[1] = <<>>

====
